---- MODULE Spec2Model ----
(***************************************************************************)
(* The chunk-validity and metadata-extraction heuristic of                 *)
(* validate_enhanced_filtering.py: test_is_valid_product_chunk,            *)
(* test_extract_product_name and test_extract_product_metadata, applied to *)
(* chunk texts.  A text is a TLA+ string, i.e. a sequence of characters;   *)
(* a character is a string of length 1.                                    *)
(***************************************************************************)
EXTENDS Integers, Sequences, FiniteSets, TLC

VARIABLES content, op, result

\* The arguments of the call made last, for the functions other than the
\* three above, whose argument is content.
VARIABLE args

\* TestJobManager (tests/integration/image_analysis/conftest.py): the time
\* in milliseconds, the two dicts, and the number of create_job calls made.
VARIABLES clock, active_jobs, completed_jobs, create_calls

managerVars == <<clock, active_jobs, completed_jobs, create_calls>>

\* ImageAnalysisTestRunner.run_full_suite (test_runner.py): the category
\* being run, the number of its tests executed, its test_results list, the
\* category fields of self.results, and test_reporter.test_results.
VARIABLES running, executed, test_results, suite_results, reporter_test_results

runnerVars == <<running, executed, test_results, suite_results, reporter_test_results>>

\* WebSocketTestManager (conftest.py): the connections dict, the job ids
\* whose socket the server has closed, message_history, and the call of
\* listen_for_updates in progress: its job_id ("" when there is none), its
\* messages list, the seconds since start_time, and what websocket.recv()
\* did in each pass of the loop.
VARIABLES connections, closed, message_history, listening, messages, elapsed, recv_log

socketVars == <<connections, closed, message_history, listening, messages, elapsed, recv_log>>

\* wait_for_processing_completion (conftest.py): whether a call is in
\* progress, the seconds since its start_time, and what each status request
\* of the call gave.
VARIABLES polling, waited, poll_log

waitVars == <<polling, waited, poll_log>>

\* The file-patching scripts (fix_pdf_processing_file_url.py and
\* fix_pdf_processing_results.py): the characters of the file at file_path
\* and the number of times it was opened for writing.
VARIABLES file, writes

patchVars == <<file, writes>>

vars == <<content, op, result, args, managerVars, runnerVars, socketVars, waitVars, patchVars>>

NoArgs == <<>>

\* The state of each component before its first use.
TextIdle == content = ""

ManagerIdle ==
    /\ clock = 0
    /\ active_jobs = <<>>
    /\ completed_jobs = <<>>
    /\ create_calls = 0

RunnerIdle ==
    /\ running = 0
    /\ executed = 0
    /\ test_results = <<>>
    /\ suite_results = <<>>
    /\ reporter_test_results = <<>>

SocketIdle ==
    /\ connections = <<>>
    /\ closed = {}
    /\ message_history = <<>>
    /\ listening = ""
    /\ messages = <<>>
    /\ elapsed = 0
    /\ recv_log = <<>>

WaitIdle ==
    /\ polling = FALSE
    /\ waited = 0
    /\ poll_log = <<>>

PatchIdle ==
    /\ file = ""
    /\ writes = 0

\* What the three text functions leave alone, and its initial state.
outsideText == <<args, managerVars, runnerVars, socketVars, waitVars, patchVars>>

OutsideTextIdle ==
    /\ args = NoArgs
    /\ ManagerIdle
    /\ RunnerIdle
    /\ SocketIdle
    /\ WaitIdle
    /\ PatchIdle

outsideManager == <<content, runnerVars, socketVars, waitVars, patchVars>>

OutsideManagerIdle ==
    /\ TextIdle
    /\ RunnerIdle
    /\ SocketIdle
    /\ WaitIdle
    /\ PatchIdle

outsideRunner == <<args, content, managerVars, socketVars, waitVars, patchVars>>

OutsideRunnerIdle ==
    /\ args = NoArgs
    /\ TextIdle
    /\ ManagerIdle
    /\ SocketIdle
    /\ WaitIdle
    /\ PatchIdle

outsideSocket == <<content, managerVars, runnerVars, waitVars, patchVars>>

OutsideSocketIdle ==
    /\ TextIdle
    /\ ManagerIdle
    /\ RunnerIdle
    /\ WaitIdle
    /\ PatchIdle

outsideWait == <<content, managerVars, runnerVars, socketVars, patchVars>>

OutsideWaitIdle ==
    /\ TextIdle
    /\ ManagerIdle
    /\ RunnerIdle
    /\ SocketIdle
    /\ PatchIdle

outsidePatch == <<args, content, managerVars, runnerVars, socketVars, waitVars>>

OutsidePatchIdle ==
    /\ args = NoArgs
    /\ TextIdle
    /\ ManagerIdle
    /\ RunnerIdle
    /\ SocketIdle
    /\ WaitIdle

\* Everything but the call and its result, and its initial state: what a
\* function without state of its own leaves alone.
componentVars == <<content, managerVars, runnerVars, socketVars, waitVars, patchVars>>

ComponentsIdle ==
    /\ TextIdle
    /\ ManagerIdle
    /\ RunnerIdle
    /\ SocketIdle
    /\ WaitIdle
    /\ PatchIdle

(***************************************************************************)
(* Characters and the str methods the functions use.                       *)
(***************************************************************************)
Ch(s, i) == SubSeq(s, i, i)

CharsOf(s) == {Ch(s, i) : i \in 1..Len(s)}

\* The cased letters of the texts: str.lower() maps UpperLetters[i] to
\* LowerLetters[i]; the letters after the first 26 have no ASCII form.
UpperLetters == "ABCDEFGHIJKLMNOPQRSTUVWXYZÉÍÓ"

LowerLetters == "abcdefghijklmnopqrstuvwxyzéíó"

AsciiUpper == CharsOf(SubSeq(UpperLetters, 1, 26))

AsciiLower == CharsOf(SubSeq(LowerLetters, 1, 26))

UpperSet == CharsOf(UpperLetters)

LowerSet == CharsOf(LowerLetters)

Digits == CharsOf("0123456789")

\* Characters str.split(), str.strip() and the regex class \s treat as space.
Whitespace == {" ", "\n", "\t", "\r"}

\* The regex class \w: letters of any alphabet, digits and the underscore.
WordChars == UpperSet \cup LowerSet \cup Digits \cup {"_"}

LowerOf == [c \in UpperSet |->
              Ch(LowerLetters, CHOOSE i \in 1..Len(UpperLetters) : Ch(UpperLetters, i) = c)]

LowerChar(c) == IF c \in UpperSet THEN LowerOf[c] ELSE c

RECURSIVE lower(_)
lower(s) ==
    IF Len(s) = 0 THEN ""
    ELSE IF Len(s) = 1 THEN LowerChar(s)
    ELSE LET h == Len(s) \div 2
         IN  lower(SubSeq(s, 1, h)) \o lower(SubSeq(s, h + 1, Len(s)))

\* sub occurs in s at position i.
OccursAt(s, i, sub) ==
    /\ i >= 1
    /\ i + Len(sub) - 1 <= Len(s)
    /\ \A j \in 1..Len(sub) : Ch(s, i + j - 1) = Ch(sub, j)

\* Python's "sub in s".
Contains(s, sub) == \E i \in 1..(Len(s) - Len(sub) + 1) : OccursAt(s, i, sub)

\* str.isupper(): at least one cased character and no lower-case one.
isupper(s) ==
    /\ \E i \in 1..Len(s) : Ch(s, i) \in UpperSet
    /\ \A i \in 1..Len(s) : Ch(s, i) \notin LowerSet

\* The end of the maximal run of characters of class cls that starts at i
\* (i - 1 when the character at i is not of the class).
RECURSIVE RunEnd(_, _, _)
RunEnd(s, i, cls) ==
    IF i <= Len(s) /\ Ch(s, i) \in cls THEN RunEnd(s, i + 1, cls) ELSE i - 1

SkipRun(s, i, cls) == RunEnd(s, i, cls) + 1

\* The end of the maximal run of characters outside cls that starts at i.
RECURSIVE RunEndNot(_, _, _)
RunEndNot(s, i, cls) ==
    IF i <= Len(s) /\ Ch(s, i) \notin cls THEN RunEndNot(s, i + 1, cls) ELSE i - 1

\* str.split(): the maximal runs of non-space characters, in order.
RECURSIVE SplitFrom(_, _)
SplitFrom(s, i) ==
    LET b == SkipRun(s, i, Whitespace)
    IN  IF b > Len(s) THEN <<>>
        ELSE LET e == RunEndNot(s, b, Whitespace)
             IN  <<SubSeq(s, b, e)>> \o SplitFrom(s, e + 1)

split(s) == SplitFrom(s, 1)

\* str.split('\n'): the pieces between line feeds, empty ones included.
RECURSIVE SplitLinesFrom(_, _)
SplitLinesFrom(s, i) ==
    LET e == RunEndNot(s, i, {"\n"})
    IN  IF e >= Len(s) THEN <<SubSeq(s, i, e)>>
        ELSE <<SubSeq(s, i, e)>> \o SplitLinesFrom(s, e + 2)

split_lines(s) == SplitLinesFrom(s, 1)

\* str.strip(): leading and trailing space removed.
RECURSIVE StripEnd(_, _)
StripEnd(s, e) ==
    IF e >= 1 /\ Ch(s, e) \in Whitespace THEN StripEnd(s, e - 1) ELSE e

strip(s) == LET b == SkipRun(s, 1, Whitespace)
            IN  SubSeq(s, b, StripEnd(s, Len(s)))

\* '\n'.join(seq)
RECURSIVE join(_)
join(seq) ==
    IF Len(seq) = 0 THEN ""
    ELSE IF Len(seq) = 1 THEN seq[1]
    ELSE seq[1] \o "\n" \o join(Tail(seq))

B2N(b) == IF b THEN 1 ELSE 0

(***************************************************************************)
(* test_is_valid_product_chunk                                             *)
(***************************************************************************)
MinContentLen == 100

IndexKeywords == {"table of contents", "index", "contents", "signature book"}

SustainabilityKeywords ==
    {"sustainability", "environmental", "sostenibilidad", "medioambiental"}

CertificationKeywords ==
    {"quality certifications", "sustainability certifications",
     "certificados", "iso 9001", "iso 14001"}

ProductKeywords == {"dimensions", "designer", "collection", "×", "cm", "mm"}

DimensionPatterns == {"×", "x ", "cm", "mm"}

ProductContextKeywords ==
    {"designer", "collection", "material", "ceramic", "porcelain", "tile",
     "estudi{h}ac", "dsignio", "alt design", "mut", "yonoh", "stacy garcia"}

MinProductScore == 2

ContainsAny(s, keywords) == \E k \in keywords : Contains(s, k)

has_uppercase_name(c) ==
    LET words == split(c)
    IN  \E n \in 1..Len(words) : isupper(words[n]) /\ Len(words[n]) > 2

\* Mutant: the unit markers dropped from the dimension patterns.
has_dimensions_NoUnits(c) == ContainsAny(c, {"×", "x "})

has_dimensions(c) == ContainsAny(c, DimensionPatterns)

has_product_context(c) == ContainsAny(lower(c), ProductContextKeywords)

\* Mutant: the product-context indicator left out of the score.
product_score_NoContext(c) == B2N(has_uppercase_name(c)) + B2N(has_dimensions(c))

product_score(c) ==
    B2N(has_uppercase_name(c)) + B2N(has_dimensions(c)) + B2N(has_product_context(c))

\* Mutant: the length check off by one.
TooShort_OffByOne(c) == Len(c) < MinContentLen - 1

TooShort(c) == Len(c) < MinContentLen

\* Mutant: the index keywords looked up in content, not content_lower.
IsIndexPage_CaseSensitive(c) == ContainsAny(c, IndexKeywords)

IsIndexPage(c) == ContainsAny(lower(c), IndexKeywords)

IsSustainabilityOnly(c) ==
    /\ ContainsAny(lower(c), SustainabilityKeywords)
    /\ ~ContainsAny(lower(c), ProductKeywords)

\* Mutant: the ISO keywords missing from the certification keywords.
IsCertificationOnly_NoIso(c) ==
    /\ ContainsAny(lower(c), {"quality certifications", "sustainability certifications",
                              "certificados"})
    /\ ~ContainsAny(lower(c), ProductKeywords)

IsCertificationOnly(c) ==
    /\ ContainsAny(lower(c), CertificationKeywords)
    /\ ~ContainsAny(lower(c), ProductKeywords)

\* Mutant: all three indicators required.
test_is_valid_product_chunk_AllThree(c) ==
    IF TooShort(c) THEN FALSE
    ELSE IF IsIndexPage(c) THEN FALSE
    ELSE IF IsSustainabilityOnly(c) THEN FALSE
    ELSE IF IsCertificationOnly(c) THEN FALSE
    ELSE product_score(c) > MinProductScore

test_is_valid_product_chunk(c) ==
    IF TooShort(c) THEN FALSE
    ELSE IF IsIndexPage(c) THEN FALSE
    ELSE IF IsSustainabilityOnly(c) THEN FALSE
    ELSE IF IsCertificationOnly(c) THEN FALSE
    ELSE product_score(c) >= MinProductScore

(***************************************************************************)
(* test_extract_product_name                                               *)
(***************************************************************************)
MaxNameLines == 10

MaxStandaloneLen == 20

ContextWindow == 3

ContextMarkers == {"×", "cm", "mm", "designer", "estudi", "dsignio", "yonoh"}

None == [some |-> FALSE, str |-> ""]

Some(s) == [some |-> TRUE, str |-> s]

\* The regex \b at the gap before position i of s.
WordBoundary(s, i) ==
    (i > 1 /\ i - 1 <= Len(s) /\ Ch(s, i - 1) \in WordChars)
        # (i <= Len(s) /\ Ch(s, i) \in WordChars)

\* re.match(r'^[A-Z]{2,}(?:\s+[A-Z]{2,})*$', s) for an s without line feed,
\* from the token that starts at i.
RECURSIVE StandaloneFrom(_, _)
StandaloneFrom(s, i) ==
    LET e == RunEnd(s, i, AsciiUpper)
        w == RunEnd(s, e + 1, Whitespace)
    IN  /\ e - i + 1 >= 2
        /\ \/ e = Len(s)
           \/ w > e /\ StandaloneFrom(s, w + 1)

\* Mutant: the pattern without its repetition group, a single token only.
IsStandaloneName_SingleToken(s) == Len(s) >= 2 /\ RunEnd(s, 1, AsciiUpper) = Len(s)

IsStandaloneName(s) == StandaloneFrom(s, 1)

\* [A-Z]{3,}(?:\s+[A-Z]{3,})*\b with the first token ending at e: the end of
\* the longest match, 0 when there is none.  The greedy match takes every
\* further token and gives tokens back until \b holds.
RECURSIVE EmbeddedEnd(_, _)
EmbeddedEnd(s, e) ==
    LET w    == RunEnd(s, e + 1, Whitespace)
        e2   == RunEnd(s, w + 1, AsciiUpper)
        more == IF w > e /\ e2 - w >= 3 THEN EmbeddedEnd(s, e2) ELSE 0
    IN  IF more # 0 THEN more
        ELSE IF WordBoundary(s, e + 1) THEN e
        ELSE 0

\* The match of \b([A-Z]{3,}(?:\s+[A-Z]{3,})*)\b that starts at i.
EmbeddedEndAt(s, i) ==
    LET e == RunEnd(s, i, AsciiUpper)
    IN  IF WordBoundary(s, i) /\ e - i + 1 >= 3 THEN EmbeddedEnd(s, e) ELSE 0

\* re.search: the leftmost match, None when no position matches.
uppercase_match(s) ==
    LET starts == {i \in 1..Len(s) : EmbeddedEndAt(s, i) # 0}
    IN  IF starts = {} THEN None
        ELSE LET b == CHOOSE i \in starts : \A k \in starts : i <= k
             IN  Some(SubSeq(s, b, EmbeddedEndAt(s, b)))

\* list.index(x): the first position holding x (0-based in Python, 1-based
\* here), 0 standing for the ValueError of an absent x.
index(seq, x) ==
    IF \E k \in 1..Len(seq) : seq[k] = x
    THEN CHOOSE k \in 1..Len(seq) : seq[k] = x /\ \A m \in 1..(k - 1) : seq[m] # x
    ELSE 0

Min(a, b) == IF a < b THEN a ELSE b

\* lines[k:k+3]
Slice(seq, k, n) == SubSeq(seq, k, Min(Len(seq), k + n - 1))

Raised(e) == [exc |-> e, ret |-> "none"]

Returned(v) == [exc |-> "none", ret |-> v]

\* The loop body of test_extract_product_name for lines[i] and the rest of
\* the loop after it.
RECURSIVE NameFrom(_, _)
NameFrom(lines, i) ==
    IF i > Min(MaxNameLines, Len(lines)) THEN Returned(None)
    ELSE LET line      == strip(lines[i])
             m         == uppercase_match(line)
             k         == index(lines, line)
             next_lines == join(Slice(lines, k, ContextWindow))
         IN  IF IsStandaloneName(line) /\ Len(line) <= MaxStandaloneLen
             THEN Returned(Some(strip(line)))
             ELSE IF m.some
             THEN IF k = 0 THEN Raised("ValueError")
                  ELSE IF ContainsAny(lower(next_lines), ContextMarkers)
                  THEN Returned(Some(strip(m.str)))
                  ELSE NameFrom(lines, i + 1)
             ELSE NameFrom(lines, i + 1)

test_extract_product_name(c) == NameFrom(split_lines(c), 1)

(***************************************************************************)
(* test_extract_product_metadata                                           *)
(***************************************************************************)
\* Mutant: the comma decimal part not matched.
NumberEnd_NoDecimal(s, i) == RunEnd(s, i, Digits)

\* \d+(?:,\d+)? from position i: the end of the number, i - 1 when no digit
\* stands at i.
NumberEnd(s, i) ==
    LET d == RunEnd(s, i, Digits)
        f == RunEnd(s, d + 2, Digits)
    IN  IF d >= i /\ d + 1 <= Len(s) /\ Ch(s, d + 1) = "," /\ f >= d + 2
        THEN f ELSE d

\* (\d+(?:,\d+)?)\s*[×x]\s*(\d+(?:,\d+)?) from position i.
DimensionAt(s, i) ==
    LET a  == NumberEnd(s, i)
        x  == SkipRun(s, a + 1, Whitespace)
        b  == SkipRun(s, x + 1, Whitespace)
        e  == NumberEnd(s, b)
    IN  IF a >= i /\ x <= Len(s) /\ Ch(s, x) \in {"×", "x"} /\ e >= b
        THEN Some(SubSeq(s, i, a) \o "×" \o SubSeq(s, b, e))
        ELSE None

\* The last match instead of the first.
first_dimension_Last(s) ==
    LET starts == {i \in 1..Len(s) : DimensionAt(s, i).some}
    IN  IF starts = {} THEN None
        ELSE DimensionAt(s, CHOOSE i \in starts : \A k \in starts : i >= k)

\* matches[0] of re.findall: the leftmost match, formatted "A×B".
first_dimension(s) ==
    LET starts == {i \in 1..Len(s) : DimensionAt(s, i).some}
    IN  IF starts = {} THEN None
        ELSE DimensionAt(s, CHOOSE i \in starts : \A k \in starts : i <= k)

\* The class [A-Za-z\s{}\-].
DesignerChars == AsciiUpper \cup AsciiLower \cup Whitespace \cup {"{", "}", "-"}

\* (?:by|BY)\s+([A-Z][A-Za-z\s{}\-]+) from position i: the captured group.
ByPhraseAt(s, i) ==
    LET w == RunEnd(s, i + 2, Whitespace)
        e == RunEnd(s, w + 2, DesignerChars)
    IN  IF /\ OccursAt(s, i, "by") \/ OccursAt(s, i, "BY")
           /\ w >= i + 2
           /\ w + 1 <= Len(s) /\ Ch(s, w + 1) \in AsciiUpper
           /\ e >= w + 2
        THEN Some(SubSeq(s, w + 1, e))
        ELSE None

first_by_phrase(s) ==
    LET starts == {i \in 1..Len(s) : ByPhraseAt(s, i).some}
    IN  IF starts = {} THEN None
        ELSE ByPhraseAt(s, CHOOSE i \in starts : \A k \in starts : i <= k)

KnownDesigners ==
    <<"ESTUDI{H}AC", "DSIGNIO", "ALT DESIGN", "MUT", "YONOH", "Stacy Garcia NY">>

\* The alternation of the known names at position i: the first alternative
\* that matches there.
KnownDesignerAt(s, i) ==
    LET alts == {n \in 1..Len(KnownDesigners) : OccursAt(s, i, KnownDesigners[n])}
    IN  IF alts = {} THEN None
        ELSE Some(KnownDesigners[CHOOSE n \in alts : \A k \in alts : n <= k])

first_known_designer(s) ==
    LET starts == {i \in 1..Len(s) : KnownDesignerAt(s, i).some}
    IN  IF starts = {} THEN None
        ELSE KnownDesignerAt(s, CHOOSE i \in starts : \A k \in starts : i <= k)

MinDesignerLen == 2

\* The known names tried before the "by" phrase.
extract_designer_KnownFirst(s) ==
    LET m1 == first_by_phrase(s)
        m2 == first_known_designer(s)
    IN  IF m2.some /\ Len(strip(m2.str)) > MinDesignerLen THEN Some(strip(m2.str))
        ELSE IF m1.some /\ Len(strip(m1.str)) > MinDesignerLen THEN Some(strip(m1.str))
        ELSE None

\* The loop over designer_patterns: a family is satisfied when the strip()
\* of its first match is longer than 2.
extract_designer(s) ==
    LET m1 == first_by_phrase(s)
        m2 == first_known_designer(s)
    IN  IF m1.some /\ Len(strip(m1.str)) > MinDesignerLen THEN Some(strip(m1.str))
        ELSE IF m2.some /\ Len(strip(m2.str)) > MinDesignerLen THEN Some(strip(m2.str))
        ELSE None

ColorNames ==
    {"TAUPE", "SAND", "CLAY", "WHITE", "BLACK", "GREY", "GRAY", "ANTHRACITE",
     "BEIGE", "BROWN", "MINT", "NAVY", "BORDEAUX"}

\* The colour names without the \b on either side.
extract_colors_NoBoundary(s) ==
    {c \in ColorNames : \E i \in 1..Len(s) : OccursAt(s, i, c)}

\* set(re.findall(r'\b(TAUPE|...)\b', s))
extract_colors(s) ==
    {c \in ColorNames :
        \E i \in 1..Len(s) :
            OccursAt(s, i, c) /\ WordBoundary(s, i) /\ WordBoundary(s, i + Len(c))}

\* The key set whether or not there was a match.
Entry_Always(key, opt) == key :> opt.str

\* A dict as a function; an absent key is outside its domain.
Entry(key, opt) == IF opt.some THEN key :> opt.str ELSE <<>>

test_extract_product_metadata(c) ==
    LET colors == extract_colors(c)
    IN  Entry("dimensions", first_dimension(c))
            @@ Entry("designer", extract_designer(c))
            @@ (IF colors # {} THEN "colors" :> colors ELSE <<>>)

(***************************************************************************)
(* The sample chunks of test_content_filtering.  The minus sign U+2212 is  *)
(* written "~" and the figure dash U+2012 "^": like them, neither is a     *)
(* letter, a digit, a space or part of any keyword or character class.     *)
(***************************************************************************)
Chunk0 ==
    "###### 24 ~ 25\n\nStacy Garcia NY\nEstudi{H}ac\nDsignio\nALT Design\nMut\nYonoh\nFran Silvestre\n\n-----\n\n**Fresh inspiration**\n\n-----\n\n**INDEX**\n\n_Signature book_\n\n_Sustainability_ _^ Sostenibilidad_\n\n8\n\n_Quality certifications_ _^ Certificados de calidad_\n\n10\n\n_Sustainability certifications_ _^ Certificados de sostenibilidad_\n\n12\n\n_Technical characteristics_ _^ Características técnicas_\n\n14\n\n_FOLD_ _^ FOLD_\n\n6\n\n_BEAT_ _^ BEAT_\n\n8\n\n_VALENOVA_ _^ VALENOVA_\n\n23\n\n_PIQUÉ_ _^ PIQUÉ_\n\n38\n\n_ONA_ _^ ONA_\n\n52\n\n_MARE_ _^ MARE_\n\n66\n\n_LOG_ _^ LOG_\n\n74\n\n_BOW_ _^ BOW_\n\n84\n\n_LINS_ _^ LINS_\n\n94\n\n_MAISON_ _^ MAISON_\n\n116"

Chunk1 ==
    "-----\n\n**Sostenibilidad**\n\n_Medioambiental y social_\n\n**RENDIMIENTO MEDIOAMBIENTAL**\nEl respeto por el entorno y el compromiso con la sostenibilidad son\nfundamentales para HARMONY. Buscamos que nuestros productos sean\nrespetuosos con el medio ambiente y contribuyan a la construcción\nsostenible."

Chunk2 ==
    "-----\n\n**Quality certifications** **Sustainability certifications**\n\n_Certificados de calidad_ _Certificados de sostenibilidad_\n\nQuality management system in compliance with Sistema de gestión de la calidad conforme a la\nUNE-EN ISO 9001:2015 UNE-EN ISO 9001:2015\n\nEnvironmental management system in compliance with Sistema de gestión medioambiental conforme a la\nUNE-EN ISO 14001:2015 UNE-EN ISO 14001:2015"

Chunk4 ==
    "39661  VALENOVA TAUPE LT/11,8X11,8\nQ59 (11,8x11,8 cm ~ 4[5/8]x4[5/8]\")\n\n12 patterns · ** 43 Kerakoll\n\n\n39660  VALENOVA SAND LT/11,8X11,8\nQ59 (11,8x11,8 cm ~ 4[5/8]x4[5/8]\")\n\n\n39659  VALENOVA CLAY LT/11,8X11,8\nQ59 (11,8x11,8 cm ~ 4[5/8]x4[5/8]\")\n\n12 patterns · ** 43 Kerakoll\n\n\n39658  VALENOVA WHITE LT/11,8X11,8\nQ59 (11,8x11,8 cm ~ 4[5/8]x4[5/8]\")\n\n12 patterns · ** 1 Kerakoll\n\nby Stacy Garcia NY"

Chunk5 ==
    "-----\n\nPIQUÉ\nby Estudi{H}ac\n\n\nPIQUÉ, a new collection for HARMONY by José Manuel Ferrero from design studio estudi{H}ac, is\ninspired by an 18th century mechanized technique for weaving double cloth with a raised pattern.\nThe collection features ceramic tiles with a distinctive textured surface that mimics the piqué fabric technique."

Chunk50 ==
    "-----\n\nLINS MINT LINS NAVY\n\n-----\n\n21716 LINS WHITE\nQ7 (20x20 cm ~ 7[7/8]x7[7/8]\")\n\n*** 4 patterns · * 100 Mapei\n\n\n31688 LINS BORDEAUX\nQ7 (20x20 cm ~ 7[7/8]x7[7/8]\")\n\n*** 4 patterns · **143 Kerakoll\n\nby YONOH"

SampleChunks == {Chunk0, Chunk1, Chunk2, Chunk4, Chunk5, Chunk50}

(***************************************************************************)
(* The texts the functions are applied to.                                 *)
(***************************************************************************)
MaxLines == 3

MaxWords == 3

\* Every sequence of at most n elements of S.
SeqsUpTo(S, n) == UNION {[1..k -> S] : k \in 0..n}

RECURSIVE Repeat(_, _)
Repeat(s, n) == IF n <= 0 THEN "" ELSE s \o Repeat(s, n - 1)

\* t filled with a dot leader up to n characters.
PadTo(t, n) == t \o Repeat(".", n - Len(t))

RECURSIVE Concat(_)
Concat(seq) == IF Len(seq) = 0 THEN "" ELSE Head(seq) \o Concat(Tail(seq))

\* Catalogue lines: a blank line, a standalone name, an indented article
\* line, an article line with a CR/LF ending, a dimension line, a credit.
GeneralLines ==
    {"", "LINS MINT", "  21716 LINS WHITE", "31688 LINS BORDEAUX\r",
     "Q7 (20x20 cm)", "by YONOH"}

GeneralInputs == {join(ls) : ls \in SeqsUpTo(GeneralLines, MaxLines)}

\* Words of index, boilerplate and product pages, each followed by a space.
ValidatorWords ==
    {"Index ", "Signature Book ", "sustainability ", "Environmental ",
     "ISO 9001 ", "designer ", "cm ", "VALENOVA ", "ceramic ", "12 x 12 "}

\* Each text as it is, and filled up to one character below and exactly to
\* the length the validator requires.
ValidatorInputs ==
    UNION {{Concat(ws), PadTo(Concat(ws), MinContentLen - 1), PadTo(Concat(ws), MinContentLen)} :
              ws \in SeqsUpTo(ValidatorWords, MaxWords)}

(***************************************************************************)
(* The calls.  op is the function called last and result what it returned  *)
(* or raised.                                                              *)
(***************************************************************************)
NoResult == [exc |-> "none", ret |-> "unset"]

CallIsValid ==
    /\ op' = "is_valid_product_chunk"
    /\ result' = Returned(test_is_valid_product_chunk(content))
    /\ UNCHANGED <<content, outsideText>>

CallExtractName ==
    /\ op' = "extract_product_name"
    /\ result' = test_extract_product_name(content)
    /\ UNCHANGED <<content, outsideText>>

CallExtractMetadata ==
    /\ op' = "extract_product_metadata"
    /\ result' = Returned(test_extract_product_metadata(content))
    /\ UNCHANGED <<content, outsideText>>

Init ==
    /\ content \in SampleChunks \cup GeneralInputs
    /\ op = "none"
    /\ result = NoResult
    /\ OutsideTextIdle

Next == CallIsValid \/ CallExtractName \/ CallExtractMetadata

Spec == Init /\ [][Next]_vars

InitValidator ==
    /\ content \in ValidatorInputs
    /\ op = "none"
    /\ result = NoResult
    /\ OutsideTextIdle

NextValidator == CallIsValid

SpecValidator == InitValidator /\ [][NextValidator]_vars

MaxBodyLines == 4

\* Lines of a product page: a blank line, a standalone name, a standalone
\* name of two-letter tokens two spaces apart, an article line, the same
\* line indented, a dimension line.
NameLines ==
    {"", "LINS MINT", "NY  LA", "21716 LINS WHITE", "  21716 LINS WHITE",
     "Q7 (20x20 cm)"}

\* n separator lines, as they open the sample chunks.
SeparatorLines(n) == [i \in 1..n |-> "-----"]

\* Up to MaxBodyLines lines, at the top of the text or below so many
\* separator lines that the body straddles the last line scanned.
NameInputs ==
    {join(SeparatorLines(k) \o ls) :
        k \in {0, MaxNameLines - 2}, ls \in SeqsUpTo(NameLines, MaxBodyLines)}

InitName ==
    /\ content \in NameInputs
    /\ op = "none"
    /\ result = NoResult
    /\ OutsideTextIdle

NextName == CallExtractName

SpecName == InitName /\ [][NextName]_vars

(***************************************************************************)
(* Texts for test_extract_product_metadata: pieces of catalogue text put   *)
(* end to end, one vocabulary per field, and texts with a piece of each.   *)
(***************************************************************************)
MaxPieces == 3

\* Sizes with either sign, with decimals, with white space around the
\* sign; a size written with a capital X, which is no size for the
\* pattern; a bare number, which lengthens the number that follows it.
DimensionPieces ==
    {"20x20 cm", "20×20 cm", "11,8x11,8 cm", "30 x\n60mm ", "11,8X11,8 ", "20"}

\* Credits with "by" and "BY", a credit of two letters, a credit that does
\* not start with a capital, and known names.
DesignerPieces ==
    {"by Fran Silvestre. ", "BY YONOH\n", "by NY, ", "by the studio ",
     "DSIGNIO ", "Stacy Garcia NY, "}

\* Colour names followed by a space, a hyphen or nothing, one in lower
\* case, the beginning of a longer word, and an underscore, which continues
\* a word.
ColorPieces == {"WHITE ", "WHITE", "MINT-", "mint ", "OFF", "_"}

PieceTexts(S) == {Concat(ps) : ps \in SeqsUpTo(S, MaxPieces)}

MixedTexts ==
    {d \o "\n" \o g \o c :
        d \in DimensionPieces, g \in DesignerPieces, c \in ColorPieces}

MetadataInputs ==
    PieceTexts(DimensionPieces) \cup PieceTexts(DesignerPieces)
        \cup PieceTexts(ColorPieces) \cup MixedTexts

InitMetadata ==
    /\ content \in MetadataInputs
    /\ op = "none"
    /\ result = NoResult
    /\ OutsideTextIdle

NextMetadata == CallExtractMetadata

SpecMetadata == InitMetadata /\ [][NextMetadata]_vars

(***************************************************************************)
(* Properties of the three functions.                                      *)
(***************************************************************************)
IsValidCalled == op = "is_valid_product_chunk"

NameCalled == op = "extract_product_name"

MetadataCalled == op = "extract_product_metadata"

\* k occurs in s when letter case is ignored.
ContainsIgnoreCase(s, k) ==
    \E i \in 1..(Len(s) - Len(k) + 1) :
        \A j \in 1..Len(k) : LowerChar(Ch(s, i + j - 1)) = LowerChar(Ch(k, j))

HasIndexKeyword(s) ==
    \E k \in {"table of contents", "index", "contents", "signature book"} :
        ContainsIgnoreCase(s, k)

HasSustainabilityKeyword(s) ==
    \E k \in {"sustainability", "environmental", "sostenibilidad", "medioambiental"} :
        ContainsIgnoreCase(s, k)

HasCertificationKeyword(s) ==
    \E k \in {"quality certifications", "sustainability certifications",
              "certificados", "iso 9001", "iso 14001"} :
        ContainsIgnoreCase(s, k)

HasProductSignal(s) ==
    \E k \in {"dimensions", "designer", "collection", "×", "cm", "mm"} :
        ContainsIgnoreCase(s, k)

\* Indicator (a): a whitespace-delimited token that is upper case (str.isupper:
\* a cased character, none of them lower case) and longer than 2 characters.
HasUppercaseToken(s) ==
    \E i \in 1..Len(s) :
        /\ Ch(s, i) \notin Whitespace
        /\ i = 1 \/ Ch(s, i - 1) \in Whitespace
        /\ LET e == RunEndNot(s, i, Whitespace)
           IN  e - i + 1 > 2 /\ isupper(SubSeq(s, i, e))

\* Indicator (b): a dimension marker, in the case written.
HasDimensionMarker(s) == \E k \in {"×", "x ", "cm", "mm"} : Contains(s, k)

\* Indicator (c): a product-context keyword or a known designer or studio.
HasContextKeyword(s) ==
    \E k \in {"designer", "collection", "material", "ceramic", "porcelain", "tile",
              "estudi{h}ac", "dsignio", "alt design", "mut", "yonoh", "stacy garcia"} :
        ContainsIgnoreCase(s, k)

IndicatorCount(s) ==
    B2N(HasUppercaseToken(s)) + B2N(HasDimensionMarker(s)) + B2N(HasContextKeyword(s))

NoExclusion(s) ==
    /\ ~HasIndexKeyword(s)
    /\ ~(HasSustainabilityKeyword(s) /\ ~HasProductSignal(s))
    /\ ~(HasCertificationKeyword(s) /\ ~HasProductSignal(s))

\* C1: each of the three functions returns a value for every text and never
\* raises: the empty text, lines with leading or trailing whitespace or a
\* CR/LF ending, repeated lines.  (The code violates it: extract_product_name
\* raises ValueError when it looks up a stripped line that differs from the
\* line of the text.)
C1_NeverRaises == op # "none" => result.exc = "none"

\* C2: a text shorter than 100 characters is rejected by
\* is_valid_product_chunk, whatever it contains.
C2_ShortRejected ==
    (IsValidCalled /\ Len(content) < 100) => result.ret = FALSE

\* A text of 99 characters with an upper-case name, a dimension and product
\* context, free of every exclusion keyword, has been rejected.
C2_Witness ==
    /\ IsValidCalled
    /\ Len(content) = 99
    /\ NoExclusion(content)
    /\ IndicatorCount(content) = 3
    /\ result.ret = FALSE

\* C3: a text that contains "table of contents", "index", "contents" or
\* "signature book" in any letter case is rejected, whatever else it holds.
C3_IndexRejected ==
    (IsValidCalled /\ HasIndexKeyword(content)) => result.ret = FALSE

\* A long text with "Index" in mixed case and all three product indicators
\* has been rejected.
C3_Witness ==
    /\ IsValidCalled
    /\ Len(content) >= 100
    /\ Contains(content, "Index")
    /\ ~Contains(content, "index")
    /\ IndicatorCount(content) = 3
    /\ result.ret = FALSE

\* C4: a text with a sustainability or certification keyword (any letter
\* case) and none of the product-signal keywords is rejected.
C4_BoilerplateRejected ==
    (/\ IsValidCalled
     /\ HasSustainabilityKeyword(content) \/ HasCertificationKeyword(content)
     /\ ~HasProductSignal(content)) => result.ret = FALSE

\* A long text with a certification keyword, no product-signal keyword, no
\* index keyword and two product indicators has been rejected.
C4_Witness ==
    /\ IsValidCalled
    /\ Len(content) >= 100
    /\ HasCertificationKeyword(content)
    /\ ~HasSustainabilityKeyword(content)
    /\ ~HasProductSignal(content)
    /\ ~HasIndexKeyword(content)
    /\ IndicatorCount(content) >= 2
    /\ result.ret = FALSE

HasSustainabilityDesignerCm(s) ==
    Contains(s, "sustainability") /\ Contains(s, "designer") /\ Contains(s, "cm")

\* C5 as stated: every text that contains "sustainability" together with
\* "designer" and "cm" is accepted.
C5_MixedAccepted ==
    (IsValidCalled /\ HasSustainabilityDesignerCm(content)) => result.ret = TRUE

\* C5 as amended: every text of at least 100 characters that contains no
\* index keyword (in any letter case) and contains "sustainability" together
\* with "designer" and "cm" is accepted.
C5_MixedAcceptedWhenLong ==
    (/\ IsValidCalled
     /\ Len(content) >= 100
     /\ ~HasIndexKeyword(content)
     /\ HasSustainabilityDesignerCm(content)) => result.ret = TRUE

\* A long text with "sustainability", "designer" and "cm" and no upper-case
\* token has been accepted.
C5_Witness ==
    /\ IsValidCalled
    /\ Len(content) >= 100
    /\ HasSustainabilityDesignerCm(content)
    /\ ~HasUppercaseToken(content)
    /\ result.ret = TRUE

\* C6: a text of at least 100 characters that triggers no exclusion rule is
\* accepted exactly when at least 2 of the 3 indicators (a), (b), (c) hold.
C6_TwoOfThree ==
    (IsValidCalled /\ Len(content) >= 100 /\ NoExclusion(content))
        => (result.ret = (IndicatorCount(content) >= 2))

\* A text of exactly 100 characters with exactly two indicators, the
\* product context not among them, has been accepted.
C6_Witness ==
    /\ IsValidCalled
    /\ Len(content) = 100
    /\ NoExclusion(content)
    /\ IndicatorCount(content) = 2
    /\ ~HasContextKeyword(content)
    /\ result.ret = TRUE

\* C7: on the six sample chunks is_valid_product_chunk returns the expected
\* verdict: false for chunks 0, 1 and 2, true for chunks 4, 5 and 50.
C7_SampleVerdicts ==
    (IsValidCalled /\ content \in SampleChunks)
        => (result.ret = (content \in {Chunk4, Chunk5, Chunk50}))

\* The PIQUÉ chunk, which has no dimension marker, has been accepted.
C7_Witness ==
    /\ IsValidCalled
    /\ content = Chunk5
    /\ ~HasDimensionMarker(content)
    /\ result.ret = TRUE

\* C8: for the VALENOVA sample chunk extract_product_name returns exactly
\* "VALENOVA", without the colour token that follows it.  (The code returns
\* "VALENOVA TAUPE".)
C8_ValenovaName ==
    (NameCalled /\ content = Chunk4) => result = Returned(Some("VALENOVA"))

\* C9: for the PIQUÉ sample chunk extract_product_name returns exactly
\* "PIQUÉ".  (The code returns "HARMONY": [A-Z] does not match the letter É.)
C9_PiqueName ==
    (NameCalled /\ content = Chunk5) => result = Returned(Some("PIQUÉ"))

\* C10: for the PIQUÉ sample chunk extract_product_metadata returns the
\* designer "Estudi{H}ac", and a designer captured after "by " never includes
\* a line break.  (The code captures across line breaks: the class of the
\* phrase contains \s.)
C10_PiqueDesigner ==
    MetadataCalled =>
        /\ content = Chunk5 =>
              /\ "designer" \in DOMAIN result.ret
              /\ result.ret["designer"] = "Estudi{H}ac"
        /\ (first_by_phrase(content).some /\ "designer" \in DOMAIN result.ret)
              => ~Contains(result.ret["designer"], "\n")

\* C11: for the LINS sample chunk extract_product_name returns exactly
\* "LINS", not the whole line of name and colour tokens.  (The code returns
\* the standalone line "LINS MINT LINS NAVY".)
C11_LinsName ==
    (NameCalled /\ content = Chunk50) => result = Returned(Some("LINS"))

HasKey(k) == k \in DOMAIN result.ret

\* C12: for the VALENOVA and LINS sample chunks extract_product_metadata
\* returns the expected dimensions and designer and colors containing the
\* expected colour names.
C12_SampleMetadata ==
    MetadataCalled =>
        /\ content = Chunk4 =>
              /\ HasKey("dimensions") /\ result.ret["dimensions"] = "11,8×11,8"
              /\ HasKey("designer") /\ result.ret["designer"] = "Stacy Garcia NY"
              /\ HasKey("colors")
              /\ {"TAUPE", "SAND", "CLAY", "WHITE"} \subseteq result.ret["colors"]
        /\ content = Chunk50 =>
              /\ HasKey("dimensions") /\ result.ret["dimensions"] = "20×20"
              /\ HasKey("designer") /\ result.ret["designer"] = "YONOH"
              /\ HasKey("colors")
              /\ {"MINT", "NAVY", "WHITE", "BORDEAUX"} \subseteq result.ret["colors"]

\* The metadata of the VALENOVA chunk has been extracted, with all three
\* fields.
C12_Witness ==
    /\ MetadataCalled
    /\ content = Chunk4
    /\ DOMAIN result.ret = {"dimensions", "designer", "colors"}

(***************************************************************************)
(* Properties of test_extract_product_name.                                *)
(***************************************************************************)
\* The lines extract_product_name scans: the first 10 of the text.
ScannedLines(s) == 1..Min(10, Len(split_lines(s)))

TrimmedLine(s, i) == strip(split_lines(s)[i])

\* t consists of upper-case tokens of at least 2 letters each, with one
\* space between two tokens.
IsSingleSpacedName(t) ==
    /\ Len(t) >= 1
    /\ \A i \in 1..Len(t) : Ch(t, i) \in AsciiUpper \cup {" "}
    /\ Ch(t, 1) # " " /\ Ch(t, Len(t)) # " "
    /\ \A i \in 1..(Len(t) - 1) : ~(Ch(t, i) = " " /\ Ch(t, i + 1) = " ")
    /\ \A i \in 1..Len(t) :
          (Ch(t, i) # " " /\ (i = 1 \/ Ch(t, i - 1) = " "))
              => RunEnd(t, i, AsciiUpper) - i + 1 >= 2

\* The same with any run of whitespace between two tokens.
IsSpacedName(t) ==
    /\ Len(t) >= 1
    /\ \A i \in 1..Len(t) : Ch(t, i) \in AsciiUpper \cup Whitespace
    /\ Ch(t, 1) \notin Whitespace /\ Ch(t, Len(t)) \notin Whitespace
    /\ \A i \in 1..Len(t) :
          (Ch(t, i) \notin Whitespace /\ (i = 1 \/ Ch(t, i - 1) \in Whitespace))
              => RunEnd(t, i, AsciiUpper) - i + 1 >= 2

\* t holds a run of at least 3 capital letters with no word character
\* before or after it.
HasEmbeddedRun(t) ==
    \E b \in 1..Len(t) :
        /\ Ch(t, b) \in AsciiUpper
        /\ b = 1 \/ Ch(t, b - 1) \notin WordChars
        /\ LET e == RunEnd(t, b, AsciiUpper)
           IN  e - b + 1 >= 3 /\ (e = Len(t) \/ Ch(t, e + 1) \notin WordChars)

\* The scanned lines that are standalone names of at most 20 characters.
SingleSpacedNameLines(s) ==
    {i \in ScannedLines(s) :
        IsSingleSpacedName(TrimmedLine(s, i)) /\ Len(TrimmedLine(s, i)) <= 20}

SpacedNameLines(s) ==
    {i \in ScannedLines(s) :
        IsSpacedName(TrimmedLine(s, i)) /\ Len(TrimmedLine(s, i)) <= 20}

Least(S) == CHOOSE i \in S : \A k \in S : i <= k

\* C13 as stated: whenever one of the first 10 lines is a standalone name
\* (tokens one space apart, at most 20 characters), extract_product_name
\* returns the earliest such line; an embedded candidate is returned only
\* when there is no such line.  Stated for the calls that return, so that
\* what refutes it is the scanning order alone.
C13_StandaloneFirst ==
    (NameCalled /\ result.exc = "none" /\ SingleSpacedNameLines(content) # {})
        => result = Returned(Some(TrimmedLine(content, Least(SingleSpacedNameLines(content)))))

\* C13 as amended: the lines are scanned in order and on each line the
\* standalone rule is tried before the embedded rule.  Whenever one of the
\* first 10 lines is a standalone name (tokens separated by whitespace, at
\* most 20 characters) and no earlier line holds an embedded run of capital
\* letters, the earliest such line is returned; and when something else is
\* returned, it is the candidate of an earlier line.
C13_StandaloneInLineOrder ==
    (NameCalled /\ SpacedNameLines(content) # {}) =>
        LET i == Least(SpacedNameLines(content))
            earlier == {j \in 1..(i - 1) : HasEmbeddedRun(TrimmedLine(content, j))}
        IN  /\ earlier = {} => result = Returned(Some(TrimmedLine(content, i)))
            /\ (result.exc = "none" /\ result # Returned(Some(TrimmedLine(content, i))))
                  => /\ result.ret.some
                     /\ \E j \in earlier :
                           uppercase_match(TrimmedLine(content, j)) = result.ret

\* A standalone name with two spaces between its tokens, below a line that
\* is no name, has been returned although a single-spaced name follows.
C13_Witness ==
    /\ NameCalled
    /\ SpacedNameLines(content) # {}
    /\ SingleSpacedNameLines(content) # {}
    /\ Least(SpacedNameLines(content)) \in 2..(Least(SingleSpacedNameLines(content)) - 1)
    /\ result = Returned(Some("NY  LA"))

\* The candidate of line i is accepted by the rule as specified: the lines
\* i, i+1 and i+2 of the text hold a context marker.
AcceptedInOwnWindow(s, i) ==
    /\ uppercase_match(TrimmedLine(s, i)).some
    /\ \E k \in {"×", "cm", "mm", "designer", "estudi", "dsignio", "yonoh"} :
          ContainsIgnoreCase(join(Slice(split_lines(s), i, 3)), k)

AcceptedLines(s) == {i \in ScannedLines(s) : AcceptedInOwnWindow(s, i)}

\* C14: in the embedded rule the candidate of line i is accepted exactly
\* when the window of lines i, i+1, i+2 holds a context marker, and the
\* first accepted candidate is returned, also for lines with leading or
\* trailing whitespace and for lines whose text occurs earlier.  Stated for
\* texts without a standalone name.  (The code takes the window at
\* lines.index of the stripped line.)
C14_WindowAtOwnLine ==
    (NameCalled /\ SpacedNameLines(content) = {}) =>
        result = Returned(IF AcceptedLines(content) = {} THEN None
                          ELSE uppercase_match(TrimmedLine(content, Least(AcceptedLines(content)))))

\* C15: a returned name is taken from one of the first 10 lines, and when
\* none of them is a standalone name or holds an accepted embedded
\* candidate the function returns none.  (The code raises ValueError on
\* such texts when a stripped line is not a line of the text.)
C15_FirstTenLinesOnly ==
    NameCalled =>
        /\ (result.exc = "none" /\ result.ret.some)
              => \E i \in ScannedLines(content) :
                    Contains(split_lines(content)[i], result.ret.str)
        /\ (SpacedNameLines(content) = {} /\ AcceptedLines(content) = {})
              => result = Returned(None)

(***************************************************************************)
(* Properties of test_extract_product_metadata.                            *)
(***************************************************************************)
AllIn(s, i, e, cls) == \A j \in i..e : Ch(s, j) \in cls

\* s[i..e] is a number: digits, or digits, a comma and digits.
IsNumber(s, i, e) ==
    /\ i <= e
    /\ \/ AllIn(s, i, e, Digits)
       \/ \E c \in (i + 1)..(e - 1) :
              Ch(s, c) = "," /\ AllIn(s, i, c - 1, Digits) /\ AllIn(s, c + 1, e, Digits)

\* The numbers in s, each as <<first position, last position>>; a number
\* lies within a run of digits and commas.
NumberSpans(s) ==
    UNION {{<<i, e>> : e \in {k \in i..RunEnd(s, i, Digits \cup {","}) : IsNumber(s, i, k)}} :
              i \in {k \in 1..Len(s) : Ch(s, k) \in Digits}}

\* The occurrences of a size in s: two numbers with a sign "×" or "x"
\* between them, white space allowed on either side of the sign.
SizeSpans(s) ==
    {p \in NumberSpans(s) \X NumberSpans(s) :
        \E x \in (p[1][2] + 1)..(p[2][1] - 1) :
            /\ Ch(s, x) \in {"×", "x"}
            /\ AllIn(s, p[1][2] + 1, x - 1, Whitespace)
            /\ AllIn(s, x + 1, p[2][1] - 1, Whitespace)}

\* The first occurrence: the one that starts leftmost, with its second
\* number taken as far as it goes.
FirstSize(s) ==
    CHOOSE p \in SizeSpans(s) :
        \A q \in SizeSpans(s) :
            p[1][1] < q[1][1] \/ (p[1][1] = q[1][1] /\ p[2][2] >= q[2][2])

SizeText(s, p) == SubSeq(s, p[1][1], p[1][2]) \o "×" \o SubSeq(s, p[2][1], p[2][2])

\* C16: the dimensions field is present exactly when the text holds a size
\* <number>[× or x]<number>, and is then "A×B" from the two numbers of the
\* first occurrence, decimals as written and the unit dropped, whatever
\* occurs later in the text; "20x20 cm" and "20×20 cm" both give "20×20".
C16_FirstDimension ==
    MetadataCalled =>
        /\ HasKey("dimensions") <=> SizeSpans(content) # {}
        /\ SizeSpans(content) # {} =>
              result.ret["dimensions"] = SizeText(content, FirstSize(content))
        /\ content \in {"20x20 cm", "20×20 cm"} =>
              HasKey("dimensions") /\ result.ret["dimensions"] = "20×20"

\* A text in which a later size differs from the first one, which has a
\* decimal part, and the field is the first one.
C16_Witness ==
    /\ MetadataCalled
    /\ \E p \in SizeSpans(content) :
          /\ SizeText(content, p) # SizeText(content, FirstSize(content))
          /\ p[1][1] > FirstSize(content)[2][2]
    /\ result.ret["dimensions"] = "11,8×11,8"

\* The first match of the "by" family is not trivial: trimmed, it is longer
\* than 2 characters.
ByPhraseSatisfied(s) == first_by_phrase(s).some /\ Len(strip(first_by_phrase(s).str)) > 2

\* The position of the first match of each family.
FirstByPhraseAt(s) == Least({i \in 1..Len(s) : ByPhraseAt(s, i).some})

FirstKnownDesignerAt(s) == Least({i \in 1..Len(s) : KnownDesignerAt(s, i).some})

\* C17: the designer is the trimmed first "by"/"BY" phrase whenever that
\* phrase is longer than 2 characters, wherever a known name occurs; it is
\* the first known name only when there is no "by" phrase or the first one
\* is trivial; no other match is considered, and a designer is always
\* longer than 2 characters.
C17_DesignerFamilies ==
    MetadataCalled =>
        /\ ByPhraseSatisfied(content) =>
              /\ HasKey("designer")
              /\ result.ret["designer"] = strip(first_by_phrase(content).str)
        /\ (~ByPhraseSatisfied(content) /\ first_known_designer(content).some) =>
              /\ HasKey("designer")
              /\ result.ret["designer"] = first_known_designer(content).str
        /\ (~ByPhraseSatisfied(content) /\ ~first_known_designer(content).some) =>
              ~HasKey("designer")
        /\ HasKey("designer") => Len(strip(result.ret["designer"])) > 2

\* A known name stands before the first "by" phrase, which is not part of
\* it, and the phrase is the designer.
C17_Witness ==
    /\ MetadataCalled
    /\ ByPhraseSatisfied(content)
    /\ first_known_designer(content).some
    /\ FirstKnownDesignerAt(content) < FirstByPhraseAt(content)
    /\ HasKey("designer")
    /\ result.ret["designer"] # first_known_designer(content).str

\* The character of s at position i is a letter, a digit or an underscore.
IsWordCharAt(s, i) == i >= 1 /\ i <= Len(s) /\ Ch(s, i) \in WordChars

\* c stands in s as a whole word, spelled as it is in c.
OccursAsWord(s, c) ==
    \E i \in 1..Len(s) :
        /\ SubSeq(s, i, Min(i + Len(c) - 1, Len(s))) = c
        /\ ~IsWordCharAt(s, i - 1)
        /\ ~IsWordCharAt(s, i + Len(c))

\* c stands in s in some spelling or inside a longer word.
OccursLoosely(s, c) == ContainsIgnoreCase(s, c)

AllowedColors ==
    {"TAUPE", "SAND", "CLAY", "WHITE", "BLACK", "GREY", "GRAY", "ANTHRACITE",
     "BEIGE", "BROWN", "MINT", "NAVY", "BORDEAUX"}

\* C18: the colors field is the set of the allowlisted colour names that
\* stand in the text as whole words in upper case, each once; names in
\* another case or inside a longer word are not collected; the field is
\* absent when there is none.
C18_ColorsExact ==
    MetadataCalled =>
        LET found == {c \in AllowedColors : OccursAsWord(content, c)}
        IN  /\ HasKey("colors") <=> found # {}
            /\ HasKey("colors") => result.ret["colors"] = found

\* WHITE stands in the text twice as a word and is collected; a colour
\* name in lower case or inside a longer word is not.
C18_Witness ==
    /\ MetadataCalled
    /\ HasKey("colors")
    /\ "WHITE" \in result.ret["colors"]
    /\ Cardinality({i \in 1..Len(content) :
            OccursAt(content, i, "WHITE") /\ ~IsWordCharAt(content, i - 1)
                /\ ~IsWordCharAt(content, i + 5)}) >= 2
    /\ \E c \in AllowedColors : OccursLoosely(content, c) /\ c \notin result.ret["colors"]

\* Some match of either designer pattern: a "by"/"BY" phrase or a known
\* name.
HasDesignerMatch(s) == first_by_phrase(s).some \/ first_known_designer(s).some

HasColorMatch(s) == \E c \in AllowedColors : OccursAsWord(s, c)

NoMatch(s) == SizeSpans(s) = {} /\ ~HasDesignerMatch(s) /\ ~HasColorMatch(s)

\* C19: extract_product_metadata returns for every text, and what it
\* returns is a record with keys among dimensions, designer and colors, a
\* key being there only when its pattern matched; the empty text and any
\* text without a match give the empty record.
C19_MetadataTotal ==
    MetadataCalled =>
        /\ result.exc = "none"
        /\ DOMAIN result.ret \subseteq {"dimensions", "designer", "colors"}
        /\ HasKey("dimensions") => SizeSpans(content) # {}
        /\ HasKey("designer") => HasDesignerMatch(content)
        /\ HasKey("colors") => HasColorMatch(content)
        /\ NoMatch(content) => result.ret = <<>>
        /\ content = "" => result.ret = <<>>

\* A text that is not empty and has no match gives the empty record.
C19_Witness ==
    /\ MetadataCalled
    /\ content # ""
    /\ NoMatch(content)
    /\ result = Returned(<<>>)

(***************************************************************************)
(* TestJobManager of tests/integration/image_analysis/conftest.py.  A dict *)
(* is a function; a missing key is outside its domain.  The clock counts   *)
(* milliseconds, so that int(time.time() * 1000) is its value.             *)
(***************************************************************************)
MaxClock == 1

MaxCreateCalls == 3

\* f"test_job_{int(time.time() * 1000)}"
JobId(ms) == <<"test_job", ms>>

JobIds == {JobId(ms) : ms \in 0..MaxClock}

FinalStatuses == {"completed", "failed", "error"}

\* Statuses, job types and data dicts the tests pass.
StatusInputs == {"processing"} \cup FinalStatuses

JobTypeInputs == {"pdf_processing", "image_analysis"}

PyNone == "None"

\* An Optional[Dict] argument: None, or a dict.
NoDict == [some |-> FALSE, dict |-> <<>>]

Dict(d) == [some |-> TRUE, dict |-> d]

DataInputs == {NoDict, Dict("progress" :> "50"), Dict("status" :> "completed")}

\* dict.pop(k) and the dict that remains.
Without(d, k) == [j \in DOMAIN d \ {k} |-> d[j]]

\* d[k] = v
With(d, k, v) == (k :> v) @@ d

\* d.update(e)
Updated(d, e) == e @@ d

\* "if data:" holds for a dict that is not empty.
Truthy(data) == data.some /\ data.dict # <<>>

Tick ==
    /\ clock < MaxClock
    /\ clock' = clock + 1
    /\ UNCHANGED <<op, result, args, active_jobs, completed_jobs, create_calls, outsideManager>>

create_job(job_type, file_path, options) ==
    LET job_id == JobId(clock)
    IN  /\ active_jobs' =
              With(active_jobs, job_id,
                   [id |-> job_id, type |-> job_type, file_path |-> file_path,
                    options |-> IF Truthy(options) THEN options.dict ELSE <<>>,
                    status |-> "created", created_at |-> clock])
        /\ result' = Returned(job_id)
        /\ UNCHANGED completed_jobs

\* What update_job_status leaves in active_jobs[job_id] before the move.
UpdatedJob(job, status, data) ==
    LET stamped == With(With(job, "status", status), "updated_at", clock)
    IN  IF Truthy(data) THEN Updated(stamped, data.dict) ELSE stamped

update_job_status(job_id, status, data) ==
    /\ IF job_id \in DOMAIN active_jobs
       THEN LET job == UpdatedJob(active_jobs[job_id], status, data)
            IN  IF status \in FinalStatuses
                THEN /\ completed_jobs' = With(completed_jobs, job_id, job)
                     /\ active_jobs' = Without(active_jobs, job_id)
                ELSE /\ active_jobs' = With(active_jobs, job_id, job)
                     /\ UNCHANGED completed_jobs
       ELSE UNCHANGED <<active_jobs, completed_jobs>>
    /\ result' = Returned(PyNone)

CallCreateJob ==
    \E job_type \in JobTypeInputs :
        /\ create_calls < MaxCreateCalls
        /\ create_job(job_type, "sample.pdf", NoDict)
        /\ create_calls' = create_calls + 1
        /\ op' = "create_job"
        /\ args' = <<job_type, "sample.pdf", NoDict>>
        /\ UNCHANGED <<clock, outsideManager>>

CallUpdateJobStatus ==
    \E job_id \in JobIds, status \in StatusInputs, data \in DataInputs :
        /\ update_job_status(job_id, status, data)
        /\ op' = "update_job_status"
        /\ args' = <<job_id, status, data>>
        /\ UNCHANGED <<clock, create_calls, outsideManager>>

InitManager ==
    /\ ManagerIdle
    /\ op = "none"
    /\ result = NoResult
    /\ args = NoArgs
    /\ OutsideManagerIdle

NextManager == Tick \/ CallCreateJob \/ CallUpdateJobStatus

SpecManager == InitManager /\ [][NextManager]_vars

(***************************************************************************)
(* Properties of TestJobManager.                                           *)
(***************************************************************************)
\* The job id and the status of the update_job_status call a step makes.
UpdatedId == args'[1]

UpdatedStatus == args'[2]

\* The step takes job_id out of active_jobs and puts it in completed_jobs.
Moves(job_id) ==
    /\ job_id \in DOMAIN active_jobs
    /\ job_id \notin DOMAIN active_jobs'
    /\ job_id \in DOMAIN completed_jobs'

C21_MovesWhenFinal ==
    CallUpdateJobStatus =>
        (Moves(UpdatedId) <=> (UpdatedId \in DOMAIN active_jobs /\ UpdatedStatus \in FinalStatuses))

C21_FinalAbsorbing ==
    CallUpdateJobStatus =>
        \A job_id \in DOMAIN completed_jobs :
            job_id \in DOMAIN completed_jobs' /\ completed_jobs'[job_id] = completed_jobs[job_id]

C21_UnknownIdIgnored ==
    (CallUpdateJobStatus /\ UpdatedId \notin DOMAIN active_jobs) =>
        UNCHANGED <<active_jobs, completed_jobs>>

C21_StatusMatchesDict ==
    /\ \A job_id \in DOMAIN completed_jobs : completed_jobs[job_id].status \in FinalStatuses
    /\ \A job_id \in DOMAIN active_jobs : active_jobs[job_id].status \notin FinalStatuses

\* C21: update_job_status moves a job from active_jobs to completed_jobs
\* exactly when the new status is completed, failed or error; no later
\* update_job_status changes the record of a job in completed_jobs; a call
\* for an id that is not active changes nothing; every job in
\* completed_jobs has a final status and every job in active_jobs has not.
C21_JobLifecycle ==
    /\ [][C21_MovesWhenFinal /\ C21_FinalAbsorbing /\ C21_UnknownIdIgnored]_vars
    /\ []C21_StatusMatchesDict

TrackedIds == DOMAIN active_jobs \cup DOMAIN completed_jobs

\* The create_job call of a step returns an id that was not tracked, and
\* leaves every job that was tracked as it was.
C22_CreatesFreshId ==
    CallCreateJob =>
        /\ result'.ret \notin TrackedIds
        /\ \A job_id \in DOMAIN active_jobs :
              job_id \in DOMAIN active_jobs' /\ active_jobs'[job_id] = active_jobs[job_id]
        /\ \A job_id \in DOMAIN completed_jobs :
              job_id \in DOMAIN completed_jobs' /\ completed_jobs'[job_id] = completed_jobs[job_id]

C22_OneJobPerCall ==
    /\ Cardinality(TrackedIds) = create_calls
    /\ DOMAIN active_jobs \cap DOMAIN completed_jobs = {}

\* C22: every create_job call registers a new job under an id that is not
\* already tracked, also within one millisecond: no job is overwritten, the
\* number of tracked jobs is the number of create_job calls, and no id is
\* in both active_jobs and completed_jobs.
C22_UniqueJobIds == [][C22_CreatesFreshId]_vars /\ []C22_OneJobPerCall

(***************************************************************************)
(* IntegrationPerformanceMonitor.validate_performance_thresholds of        *)
(* conftest.py.  The metrics dict is args[1].                              *)
(***************************************************************************)
PERFORMANCE_THRESHOLDS ==
    [max_processing_time |-> 60, max_memory_usage |-> 512, max_cpu_utilization |-> 80,
     max_network_latency |-> 2, min_websocket_frequency |-> 1]

\* The keys start_monitoring gives a metrics dict.
MetricNames ==
    {"processing_time", "memory_usage", "cpu_utilization", "network_latency",
     "websocket_message_frequency"}

\* dict.get(k): the value, or None.
Get(d, k) == IF k \in DOMAIN d THEN Some(d[k]) ELSE None

threshold_key(metric) ==
    IF metric # "websocket_message_frequency" THEN "max_" \o metric ELSE "min_" \o metric

validate_performance_thresholds(metrics) ==
    ~\E metric \in DOMAIN metrics :
        LET threshold == Get(PERFORMANCE_THRESHOLDS, threshold_key(metric))
        IN  /\ threshold.some
            /\ IF metric = "websocket_message_frequency"
               THEN metrics[metric] < threshold.str
               ELSE metrics[metric] > threshold.str

\* How far from its limit a metric value is taken.
Margin == 1

\* The limit each metric is meant to be held against.
LimitOf ==
    [processing_time |-> 60, memory_usage |-> 512, cpu_utilization |-> 80,
     network_latency |-> 2, websocket_message_frequency |-> 1]

\* Metrics dicts: any of the five keys, each with a value around its limit;
\* the dict start_monitoring creates is the one with every key at 0.
MetricValues(metric) == {0} \cup ((LimitOf[metric] - Margin)..(LimitOf[metric] + Margin))

MetricsInputs ==
    UNION {{m \in [keys -> UNION {MetricValues(k) : k \in MetricNames}] :
                \A k \in keys : m[k] \in MetricValues(k)} :
              keys \in SUBSET MetricNames}

CallValidateThresholds ==
    /\ op' = "validate_performance_thresholds"
    /\ result' = Returned(validate_performance_thresholds(args[1]))
    /\ UNCHANGED <<args, componentVars>>

InitThresholds ==
    /\ args \in {<<m>> : m \in MetricsInputs}
    /\ op = "none"
    /\ result = NoResult
    /\ ComponentsIdle

NextThresholds == CallValidateThresholds

SpecThresholds == InitThresholds /\ [][NextThresholds]_vars

(***************************************************************************)
(* Properties of validate_performance_thresholds.                          *)
(***************************************************************************)
\* The metric is supplied and is on the wrong side of its limit.
Above(metrics, metric, limit) == metric \in DOMAIN metrics /\ metrics[metric] > limit

Below(metrics, metric, limit) == metric \in DOMAIN metrics /\ metrics[metric] < limit

ViolatesThreshold(metrics) ==
    \/ Above(metrics, "processing_time", 60)
    \/ Above(metrics, "memory_usage", 512)
    \/ Above(metrics, "cpu_utilization", 80)
    \/ Above(metrics, "network_latency", 2)
    \/ Below(metrics, "websocket_message_frequency", 1)

\* C23: validate_performance_thresholds returns False whenever a supplied
\* metric violates its threshold (processing_time, memory_usage,
\* cpu_utilization or network_latency above its maximum, or
\* websocket_message_frequency below 1) and True only when none does.
C23_ThresholdsEnforced ==
    op = "validate_performance_thresholds" =>
        (result.ret <=> ~ViolatesThreshold(args[1]))

(***************************************************************************)
(* ImageAnalysisTestRunner.run_full_suite and its six category methods     *)
(* (test_runner.py, lines 52-853).  Test n stands for the id TEST_00n.  A  *)
(* field of self.results that is still None is outside the domain of       *)
(* suite_results.  Durations and time stamps are left out: nothing reads   *)
(* them.                                                                   *)
(***************************************************************************)
Range(a, b) == [i \in 1..(b - a + 1) |-> a + i - 1]

\* The category methods in the order run_full_suite awaits them, each with
\* the field it fills, its category_name, the total_tests it reports, the
\* lists of tests it loops over and the helper each loop awaits.
SuiteOrder_SecurityFirst ==
    <<"run_security_tests", "run_communication_tests", "run_status_tests",
      "run_pipeline_tests", "run_performance_tests", "run_resilience_tests">>

SuiteOrder ==
    <<"run_communication_tests", "run_status_tests", "run_pipeline_tests",
      "run_performance_tests", "run_resilience_tests", "run_security_tests">>

CategoryMethods ==
    [run_communication_tests |->
        [field |-> "communication", category_name |-> "Frontend-Backend Communication",
         total_tests |-> 15,
         loops |-> <<[tests |-> Range(1, 5), helper |-> "_execute_basic_communication_test"],
                     [tests |-> Range(6, 10), helper |-> "_execute_job_management_test"],
                     [tests |-> Range(11, 15), helper |-> "_execute_data_flow_test"]>>],
     run_status_tests |->
        [field |-> "realtime_status", category_name |-> "Real-Time Status Integration",
         total_tests |-> 12,
         loops |-> <<[tests |-> Range(16, 19), helper |-> "_execute_websocket_test"],
                     [tests |-> Range(20, 23), helper |-> "_execute_progress_tracking_test"],
                     [tests |-> Range(24, 27), helper |-> "_execute_status_sync_test"]>>],
     run_pipeline_tests |->
        [field |-> "ml_pipeline", category_name |-> "ML Processing Pipeline Coordination",
         total_tests |-> 18,
         loops |-> <<[tests |-> Range(28, 33), helper |-> "_execute_image_extraction_test"],
                     [tests |-> Range(34, 39), helper |-> "_execute_ocr_integration_test"],
                     [tests |-> Range(40, 45), helper |-> "_execute_material_recognition_test"]>>],
     run_performance_tests |->
        [field |-> "performance", category_name |-> "Performance and Scalability",
         total_tests |-> 10,
         loops |-> <<[tests |-> Range(46, 49), helper |-> "_execute_concurrent_processing_test"],
                     [tests |-> Range(50, 52), helper |-> "_execute_long_running_test"],
                     [tests |-> Range(53, 55), helper |-> "_execute_performance_benchmark_test"]>>],
     run_resilience_tests |->
        [field |-> "error_recovery", category_name |-> "Error Recovery and Resilience",
         total_tests |-> 12,
         loops |-> <<[tests |-> Range(56, 59), helper |-> "_execute_network_failure_test"],
                     [tests |-> Range(60, 63), helper |-> "_execute_processing_error_test"],
                     [tests |-> Range(64, 67), helper |-> "_execute_resource_error_test"]>>],
     run_security_tests |->
        [field |-> "security", category_name |-> "Security and Authentication",
         total_tests |-> 8,
         loops |-> <<[tests |-> Range(68, 71), helper |-> "_execute_auth_test"],
                     [tests |-> Range(72, 75), helper |-> "_execute_data_security_test"]>>]]

\* The helpers the class defines, each with the tests it has a branch for;
\* for any other test it only sleeps.
DefinedHelpers ==
    [_execute_network_failure_test |-> {56, 57, 58},
     _execute_processing_error_test |-> {60, 61},
     _execute_resource_error_test |-> {64, 65},
     _execute_auth_test |-> {68, 69},
     _execute_data_security_test |-> {72, 73}]

\* What awaiting the helper for a test can do: "returns", or the exception
\* it raises.  A helper the class does not define raises AttributeError;
\* run_security_tests passes _execute_auth_test the name frontend_harness,
\* which it does not have, and raises NameError; a branch that talks to the
\* services returns or raises as they answer; a sleep returns.
HelperOutcomes(method, helper, test) ==
    IF helper \notin DOMAIN DefinedHelpers THEN {"AttributeError"}
    ELSE IF method = "run_security_tests" /\ helper = "_execute_auth_test" THEN {"NameError"}
    ELSE IF test \in DefinedHelpers[helper] THEN {"returns", "AssertionError"}
    ELSE {"returns"}

\* The tests a category method runs, in the order of its loops, each with
\* the helper awaited for it.
RECURSIVE LoopTests(_)
LoopTests(loops) ==
    IF Len(loops) = 0 THEN <<>>
    ELSE [i \in 1..Len(Head(loops).tests) |->
             [test |-> Head(loops).tests[i], helper |-> Head(loops).helper]]
         \o LoopTests(Tail(loops))

TestsOf(method) == LoopTests(CategoryMethods[method].loops)

\* TestReporter.record_test_result (conftest.py): one more entry.
record_test_result(reporter, test_name, outcome, details) ==
    Append(reporter, [test_name |-> test_name, result |-> outcome, details |-> details])

\* The entry a loop body appends to test_results for a test: the try part
\* when the helper returned, the except part when it raised.
TestEntry_AlwaysPassed(test, outcome) ==
    [test_id |-> test, result |-> "passed", error |-> "none"]

TestEntry(test, outcome) ==
    IF outcome = "returns"
    THEN [test_id |-> test, result |-> "passed", error |-> "none"]
    ELSE [test_id |-> test, result |-> "failed", error |-> outcome]

\* len([r for r in test_results if r["result"] == outcome])
CountResults(details, outcome) ==
    Cardinality({i \in 1..Len(details) : details[i].result = outcome})

TestCategoryResults(method, details) ==
    [category_name |-> CategoryMethods[method].category_name,
     total_tests |-> CategoryMethods[method].total_tests,
     passed |-> CountResults(details, "passed"),
     failed |-> CountResults(details, "failed"),
     skipped |-> 0,
     test_details |-> details]

\* run_full_suite is called and awaits the first category method.
StartSuite ==
    /\ op = "none"
    /\ op' = "run_full_suite"
    /\ running' = 1
    /\ executed' = 0
    /\ test_results' = <<>>
    /\ UNCHANGED <<result, suite_results, reporter_test_results, outsideRunner>>

\* One pass through a loop body of the category method being run.
RunTest ==
    /\ running \in 1..Len(SuiteOrder)
    /\ executed < Len(TestsOf(SuiteOrder[running]))
    /\ LET next == TestsOf(SuiteOrder[running])[executed + 1]
       IN  \E outcome \in HelperOutcomes(SuiteOrder[running], next.helper, next.test) :
               LET entry == TestEntry(next.test, outcome)
               IN  /\ test_results' = Append(test_results, entry)
                   /\ reporter_test_results' =
                          record_test_result(reporter_test_results, next.test, entry.result,
                                             IF entry.result = "failed" THEN entry.error ELSE "none")
    /\ executed' = executed + 1
    /\ UNCHANGED <<op, result, running, suite_results, outsideRunner>>

\* The category method returns and run_full_suite stores what it returned
\* and awaits the next one.
ReturnCategory ==
    /\ running \in 1..Len(SuiteOrder)
    /\ executed = Len(TestsOf(SuiteOrder[running]))
    /\ suite_results' =
           With(suite_results, CategoryMethods[SuiteOrder[running]].field,
                TestCategoryResults(SuiteOrder[running], test_results))
    /\ running' = running + 1
    /\ executed' = 0
    /\ test_results' = <<>>
    /\ UNCHANGED <<op, result, reporter_test_results, outsideRunner>>

\* self._calculate_overall_results(): the class has no such method, the
\* AttributeError is logged and raised again.
CalculateOverallResults ==
    /\ running = Len(SuiteOrder) + 1
    /\ result' = Raised("AttributeError")
    /\ running' = 0
    /\ UNCHANGED <<op, executed, test_results, suite_results, reporter_test_results, outsideRunner>>

InitRunner ==
    /\ RunnerIdle
    /\ op = "none"
    /\ result = NoResult
    /\ OutsideRunnerIdle

NextRunner == StartSuite \/ RunTest \/ ReturnCategory \/ CalculateOverallResults

SpecRunner == InitRunner /\ [][NextRunner]_vars

(***************************************************************************)
(* Properties of the test runner.                                          *)
(***************************************************************************)
\* The test ids and outcomes of a list of entries, in order.
Outcomes(details) ==
    [i \in 1..Len(details) |-> <<details[i].test_id, details[i].result>>]

Reported(reporter) ==
    [i \in 1..Len(reporter) |-> <<reporter[i].test_name, reporter[i].result>>]

ListedTests(method) == [i \in 1..Len(TestsOf(method)) |-> TestsOf(method)[i].test]

FieldOf(method) == CategoryMethods[method].field

HasReturned(method) == FieldOf(method) \in DOMAIN suite_results

\* The entries of the category methods that have returned, in the order of
\* the methods in order, followed by those of the method being run.
RECURSIVE DetailsOfFirst(_, _)
DetailsOfFirst(order, k) ==
    IF k = 0 THEN <<>>
    ELSE DetailsOfFirst(order, k - 1)
         \o (IF HasReturned(order[k]) THEN suite_results[FieldOf(order[k])].test_details ELSE <<>>)

\* The entry agrees with what the helper did for its test: passed only if
\* the helper can return, failed only if it can raise.
AgreesWithHelper(method, entry) ==
    \E i \in 1..Len(TestsOf(method)) :
        /\ TestsOf(method)[i].test = entry.test_id
        /\ LET can == HelperOutcomes(method, TestsOf(method)[i].helper, entry.test_id)
           IN  \/ entry.result = "passed" /\ "returns" \in can
               \/ entry.result = "failed" /\ can # {"returns"}

ClaimedOrder ==
    <<[field |-> "communication", tests |-> 15], [field |-> "realtime_status", tests |-> 12],
      [field |-> "ml_pipeline", tests |-> 18], [field |-> "performance", tests |-> 10],
      [field |-> "error_recovery", tests |-> 12], [field |-> "security", tests |-> 8]>>

RECURSIVE TestsBefore(_)
TestsBefore(k) == IF k <= 1 THEN 0 ELSE TestsBefore(k - 1) + ClaimedOrder[k - 1].tests

Populated(k) == ClaimedOrder[k].field \in DOMAIN suite_results

SuiteEnded == op = "run_full_suite" /\ result # NoResult

ListenTimeout == 2

MaxMessages == 3

SocketJobs == {"job_a", "job_b"}

\* What the server sends: a JSON object with or without a status, a JSON
\* document that is not an object, and text that is not JSON.
Frame(kind, status) == [kind |-> kind, status |-> status]

NoFrame == Frame("none", PyNone)

Frames ==
    {Frame("object", s) : s \in {"processing", "completed", "failed", "error", PyNone}}
        \cup {Frame("array", PyNone), Frame("text", PyNone)}

\* json.loads(message): raises on text that is not JSON.
LoadsRaises(frame) == frame.kind = "text"

\* parsed_message.get("status"): only a dict has get.
GetRaises(frame) == frame.kind # "object"

TerminalStatuses == {"completed", "failed", "error"}

\* One pass of the loop, by what recv() did.
Recv(event, frame) == [event |-> event, frame |-> frame]

\* connect: the socket of websockets.connect is stored under job_id, or
\* the exception of a failed connection is raised with nothing stored.
Connect ==
    /\ listening = ""
    /\ \E job_id \in SocketJobs, connected \in BOOLEAN :
        /\ op' = "connect"
        /\ args' = <<job_id>>
        /\ IF connected
           THEN /\ connections' = With(connections, job_id, "socket")
                /\ closed' = closed \ {job_id}
                /\ result' = Returned("socket")
           ELSE /\ result' = Raised("Exception")
                /\ UNCHANGED <<connections, closed>>
    /\ UNCHANGED <<message_history, listening, messages, elapsed, recv_log>>
    /\ UNCHANGED outsideSocket

\* disconnect: closes and forgets the socket of a known job_id.
Disconnect ==
    /\ listening = ""
    /\ \E job_id \in SocketJobs :
        /\ op' = "disconnect"
        /\ args' = <<job_id>>
        /\ connections' = Without(connections, job_id)
        /\ closed' = closed \ {job_id}
    /\ result' = Returned(PyNone)
    /\ UNCHANGED <<message_history, listening, messages, elapsed, recv_log>>
    /\ UNCHANGED outsideSocket

\* listen_for_updates up to the loop.
CallListen ==
    /\ listening = ""
    /\ \E job_id \in SocketJobs :
        /\ op' = "listen_for_updates"
        /\ args' = <<job_id, ListenTimeout>>
        /\ IF job_id \notin DOMAIN connections
           THEN /\ result' = Raised("ValueError")
                /\ UNCHANGED <<listening, messages, elapsed, recv_log>>
           ELSE /\ result' = NoResult
                /\ listening' = job_id
                /\ messages' = <<>>
                /\ elapsed' = 0
                /\ recv_log' = <<>>
    /\ UNCHANGED <<connections, closed, message_history>>
    /\ UNCHANGED outsideSocket

InLoop == listening # "" /\ elapsed < args[2]

\* 'return messages', by any way out of the loop.
ReturnMessages(returned) ==
    /\ result' = Returned(returned)
    /\ listening' = ""

\* A pass in which recv() gives a frame within its second.
RecvFrame_SkipUnparsed(frame) ==
    IF LoadsRaises(frame)
    THEN /\ UNCHANGED <<messages, message_history, listening, result>>
    ELSE /\ messages' = Append(messages, frame)
         /\ message_history' = Append(message_history, frame)
         /\ IF GetRaises(frame) \/ frame.status \in TerminalStatuses
            THEN ReturnMessages(messages')
            ELSE UNCHANGED <<listening, result>>

RecvFrame(frame) ==
    IF LoadsRaises(frame)
    THEN /\ ReturnMessages(messages)
         /\ UNCHANGED <<messages, message_history>>
    ELSE /\ messages' = Append(messages, frame)
         /\ message_history' = Append(message_history, frame)
         /\ IF GetRaises(frame) \/ frame.status \in TerminalStatuses
            THEN ReturnMessages(messages')
            ELSE UNCHANGED <<listening, result>>

ReceiveMessage ==
    /\ InLoop
    /\ listening \notin closed
    /\ Len(message_history) < MaxMessages
    /\ \E frame \in Frames, seconds \in {0, 1} :
        /\ recv_log' = Append(recv_log, Recv("message", frame))
        /\ elapsed' = elapsed + seconds
        /\ RecvFrame(frame)
    /\ UNCHANGED <<connections, closed, op, args>>
    /\ UNCHANGED outsideSocket

\* A pass in which wait_for gives up after its second: 'continue'.
ReceiveTimeout ==
    /\ InLoop
    /\ listening \notin closed
    /\ recv_log' = Append(recv_log, Recv("timeout", NoFrame))
    /\ elapsed' = elapsed + 1
    /\ UNCHANGED <<connections, closed, message_history, listening, messages, op, args, result>>
    /\ UNCHANGED outsideSocket

\* A pass in which recv() raises ConnectionClosed: 'break'.
ReceiveClosed ==
    /\ InLoop
    /\ recv_log' = Append(recv_log, Recv("closed", NoFrame))
    /\ closed' = closed \cup {listening}
    /\ ReturnMessages(messages)
    /\ UNCHANGED <<connections, message_history, messages, elapsed, op, args>>
    /\ UNCHANGED outsideSocket

\* The loop condition fails.
ListenTimedOut ==
    /\ listening # ""
    /\ elapsed >= args[2]
    /\ ReturnMessages(messages)
    /\ UNCHANGED <<connections, closed, message_history, messages, elapsed, recv_log, op, args>>
    /\ UNCHANGED outsideSocket

InitSocket ==
    /\ SocketIdle
    /\ OutsideSocketIdle
    /\ op = "none"
    /\ args = NoArgs
    /\ result = NoResult

NextSocket ==
    \/ Connect
    \/ Disconnect
    \/ CallListen
    \/ ReceiveMessage
    \/ ReceiveTimeout
    \/ ReceiveClosed
    \/ ListenTimedOut

SpecSocket == InitSocket /\ [][NextSocket]_vars

\* The call made last is listen_for_updates and it found a connection.
Listens == op = "listen_for_updates" /\ result.exc # "ValueError"

\* ... and it has returned.
Listened == Listens /\ listening = ""

RECURSIVE FramesOf(_)
\* The frames recv() gave in the passes of a log, in arrival order.
FramesOf(log) ==
    IF log = <<>>
    THEN <<>>
    ELSE IF log[1].event = "message"
         THEN <<log[1].frame>> \o FramesOf(Tail(log))
         ELSE FramesOf(Tail(log))

IsJson(frame) == frame.kind \in {"object", "array"}

ParsedOf(log) == SelectSeq(FramesOf(log), IsJson)

IsTerminal(frame) == frame.kind = "object" /\ frame.status \in TerminalStatuses

\* A frame that ends the listening with an exception the outer handler logs.
Breaks(frame) == frame.kind \in {"array", "text"}

LastOf(s) == s[Len(s)]

\* ValueError exactly when the job has no connection.
C26_NeedsConnection ==
    op = "listen_for_updates"
        => (result.exc = "ValueError" <=> args[1] \notin DOMAIN connections)

\* The list returned is the list built, and nothing is returned while the
\* loop runs.
C26_ReturnsList ==
    Listens => IF listening = "" THEN result = Returned(messages) ELSE result = NoResult

\* Each step of a call appends the same new messages, in order, to messages
\* and to message_history, and nothing else changes message_history.
C26_HistoryFollows ==
    /\ Listens' /\ listening' = "" /\ listening = "" => message_history' = message_history
    /\ Listens' /\ listening # "" =>
        \E new \in {<<>>} \cup {<<f>> : f \in Frames} :
            /\ messages' = messages \o new
            /\ message_history' = message_history \o new
    /\ ~Listens' => message_history' = message_history

\* While the loop runs no message was terminal and the connection was not
\* closed; of the messages returned only the last can be terminal.
C26_StopsAtOnce ==
    Listens =>
        /\ \A i \in 1..Len(messages) : IsTerminal(messages[i]) => listening = "" /\ i = Len(messages)
        /\ \A i \in 1..Len(recv_log) : recv_log[i].event = "closed" => listening = "" /\ i = Len(recv_log)

\* A call that returned after a pass that timed out, or after no pass,
\* used up its timeout.
C26_TimeoutContinues ==
    Listened /\ (recv_log = <<>> \/ LastOf(recv_log).event = "timeout") => elapsed >= args[2]

\* C26 as stated: listen_for_updates raises ValueError when the job has no
\* connection; otherwise it returns the messages received, in arrival
\* order, appends each to message_history in the same order, stops as soon
\* as a message with status completed, failed or error arrived (the last
\* one returned) or the connection was closed, and a receive timeout alone
\* never ends it before the overall timeout.
C26_ReturnsAllReceived ==
    /\ C26_NeedsConnection
    /\ C26_ReturnsList
    /\ Listens => messages = FramesOf(recv_log)
    /\ C26_StopsAtOnce
    /\ C26_TimeoutContinues

\* A frame that is not a JSON object ends the call at once; one that is
\* not JSON is not among the messages.
C26_BadFrameEnds ==
    Listens =>
        \A i \in 1..Len(recv_log) :
            recv_log[i].event = "message" /\ Breaks(recv_log[i].frame)
                => listening = "" /\ i = Len(recv_log)

\* C26, amended: listen_for_updates raises ValueError when the job has no
\* connection; otherwise it returns the messages received that are JSON, in
\* arrival order, having appended each to message_history in the same
\* order; it stops as soon as a message with status completed, failed or
\* error arrived (the last one returned), the connection was closed, or a
\* frame arrived that is not a JSON object (returned last when it is JSON,
\* dropped when it is not); a receive timeout alone never ends it before
\* the overall timeout.
C26_ListenForUpdates ==
    /\ []C26_NeedsConnection
    /\ []C26_ReturnsList
    /\ [](Listens => messages = ParsedOf(recv_log))
    /\ [][C26_HistoryFollows]_vars
    /\ []C26_StopsAtOnce
    /\ []C26_BadFrameEnds
    /\ []C26_TimeoutContinues

\* A call on the second connection that got a message, a timeout and text
\* that is not JSON, and returned the one message behind earlier history.
C26_Witness ==
    /\ Listened
    /\ Len(recv_log) = 3
    /\ recv_log[2].event = "timeout"
    /\ recv_log[3].frame = Frame("text", PyNone)
    /\ Len(messages) = 1
    /\ Len(message_history) = 2
    /\ elapsed < args[2]

(***************************************************************************)
(* wait_for_processing_completion                                          *)
(* (tests/integration/image_analysis/conftest.py).                         *)
(***************************************************************************)
\* The longest timeout a call is given, in seconds.
MaxWaitTimeout == 3

StatusCodes == {200, 404, 500}

\* What mivaa_client.get gives: a response with a status code and a body
\* (JSON or not), or an exception.
Response(status_code, body) == [event |-> "response", status_code |-> status_code, body |-> body]

RequestFailed == [event |-> "exception", status_code |-> 0, body |-> NoFrame]

Responses == {Response(c, b) : c \in StatusCodes, b \in Frames} \cup {RequestFailed}

\* The body of the try block returns status_data.
Completes_AnyCode(response) ==
    /\ response.event = "response"
    /\ ~LoadsRaises(response.body)
    /\ ~GetRaises(response.body)
    /\ response.body.status \in TerminalStatuses

Completes(response) ==
    /\ response.event = "response"
    /\ response.status_code = 200
    /\ ~LoadsRaises(response.body)
    /\ ~GetRaises(response.body)
    /\ response.body.status \in TerminalStatuses

CallWait ==
    /\ ~polling
    /\ \E job_id \in SocketJobs, timeout \in 0..MaxWaitTimeout :
        args' = <<job_id, timeout>>
    /\ op' = "wait_for_processing_completion"
    /\ result' = NoResult
    /\ polling' = TRUE
    /\ waited' = 0
    /\ poll_log' = <<>>
    /\ UNCHANGED outsideWait

\* One pass of the loop: the request, taking under a second or longer, then
\* the return or the sleep of one second.
Poll ==
    /\ polling
    /\ waited < args[2]
    /\ \E response \in Responses, seconds \in {0, 1} :
        /\ poll_log' = Append(poll_log, response)
        /\ IF Completes(response)
           THEN /\ result' = Returned(response.body)
                /\ polling' = FALSE
                /\ waited' = waited + seconds
           ELSE /\ waited' = waited + seconds + 1
                /\ UNCHANGED <<result, polling>>
    /\ UNCHANGED <<op, args>>
    /\ UNCHANGED outsideWait

\* The loop condition fails: raise TimeoutError.
WaitTimedOut ==
    /\ polling
    /\ waited >= args[2]
    /\ result' = Raised("TimeoutError")
    /\ polling' = FALSE
    /\ UNCHANGED <<op, args, waited, poll_log>>
    /\ UNCHANGED outsideWait

InitWait ==
    /\ WaitIdle
    /\ OutsideWaitIdle
    /\ op = "none"
    /\ args = NoArgs
    /\ result = NoResult

NextWait == CallWait \/ Poll \/ WaitTimedOut

SpecWait == InitWait /\ [][NextWait]_vars

Waits == op = "wait_for_processing_completion"

\* A response taken with HTTP 200 whose body is a JSON object with a final
\* status.
IsFinalPayload(response) ==
    /\ response.event = "response"
    /\ response.status_code = 200
    /\ response.body.kind = "object"
    /\ response.body.status \in {"completed", "failed", "error"}

\* Whatever is returned is the body of the last response, a final payload
\* of a request made before the timeout.
C27_ReturnsFinalPayload ==
    Waits /\ ~polling /\ result.exc = "none" =>
        /\ poll_log # <<>>
        /\ IsFinalPayload(LastOf(poll_log))
        /\ result.ret = LastOf(poll_log).body
        /\ Len(poll_log) - 1 < args[2]

\* A response that is not a final payload, or a failed request, leaves the
\* call polling; a final payload ends it at once.
C27_OthersContinue ==
    Waits =>
        \A i \in 1..Len(poll_log) :
            IF IsFinalPayload(poll_log[i])
            THEN ~polling /\ i = Len(poll_log) /\ result.exc = "none"
            ELSE i = Len(poll_log) =>
                    \/ polling /\ result = NoResult
                    \/ ~polling /\ result = Raised("TimeoutError") /\ waited >= args[2]

\* TimeoutError is raised only once the timeout has passed, no request
\* having given a final payload; nothing else is raised.
C27_TimeoutError ==
    Waits /\ ~polling /\ result.exc # "none" =>
        /\ result.exc = "TimeoutError"
        /\ waited >= args[2]
        /\ \A i \in 1..Len(poll_log) : ~IsFinalPayload(poll_log[i])

\* C27: wait_for_processing_completion returns only a payload obtained with
\* HTTP 200 whose status is completed, failed or error; other responses and
\* exceptions of the request never end the wait; without such a payload
\* from a request made before the timeout it raises TimeoutError.
C27_WaitForCompletion ==
    /\ C27_ReturnsFinalPayload
    /\ C27_OthersContinue
    /\ C27_TimeoutError

\* A call that returned the failed payload of its third request, after a
\* failed request and a 500 response with a completed status.
C27_Witness ==
    /\ Waits
    /\ ~polling
    /\ result.exc = "none"
    /\ Len(poll_log) = 3
    /\ poll_log[1] = RequestFailed
    /\ poll_log[2] = Response(500, Frame("object", "completed"))
    /\ poll_log[3] = Response(200, Frame("object", "failed"))

(***************************************************************************)
(* analyze_chunk_types and has_product_indicators                          *)
(* (test_two_stage_classification.py).                                     *)
(***************************************************************************)
MaxChunks == 3

\* re.search(r'\b[A-Z]{3,}\b', content): a whole word of three or more
\* ASCII capitals.
indicator_has_uppercase(s) ==
    \E i \in 1..Len(s) :
        /\ Ch(s, i) \in AsciiUpper
        /\ i = 1 \/ Ch(s, i - 1) \notin WordChars
        /\ LET e == RunEnd(s, i, AsciiUpper)
           IN  /\ e - i + 1 >= 3
               /\ e = Len(s) \/ Ch(s, e + 1) \notin WordChars

\* re.search(r'\d+[×x]\d+|cm|mm', content)
indicator_has_dimensions(s) ==
    \/ \E i \in 1..(Len(s) - 2) :
        /\ Ch(s, i) \in Digits
        /\ Ch(s, i + 1) \in {"×", "x"}
        /\ Ch(s, i + 2) \in Digits
    \/ Contains(s, "cm")
    \/ Contains(s, "mm")

\* re.search(r'designer|by |estudi|dsignio|yonoh|stacy garcia', content,
\* re.IGNORECASE)
indicator_has_designer(s) ==
    ContainsAny(lower(s), {"designer", "by ", "estudi", "dsignio", "yonoh", "stacy garcia"})

has_product_indicators(s) ==
    (indicator_has_uppercase(s) /\ indicator_has_dimensions(s)) \/ (indicator_has_uppercase(s) /\ indicator_has_designer(s))

\* The branch of the loop body a chunk takes.
ChunkType(chunk) ==
    LET lowered == lower(chunk.content)
    IN  IF ContainsAny(lowered, {"index", "table of contents", "signature book"})
        THEN "index"
        ELSE IF ContainsAny(lowered, {"sustainability", "environmental", "sostenibilidad"})
        THEN "sustainability"
        ELSE IF has_product_indicators(lowered)
        THEN "product_like"
        ELSE "other"

ChunkTypes == {"index", "sustainability", "product_like", "other"}

RECURSIVE CountType(_, _)
CountType(chunks, type) ==
    IF chunks = <<>>
    THEN 0
    ELSE B2N(ChunkType(chunks[1]) = type) + CountType(Tail(chunks), type)

analyze_chunk_types(chunks) == [type \in ChunkTypes |-> CountType(chunks, type)]

ChunkContents ==
    {"Signature Book INDEX", "Sustainability at HARMONY cm", "Index of sostenibilidad",
     "VALENOVA 15x38 cm", "FOLD by Estudi", "NY 8x45", "Fold tiles 20 mm", "MAISON"}

ChunksInputs ==
    UNION {[1..n -> {[content |-> c] : c \in ChunkContents}] : n \in 0..MaxChunks}

CallAnalyzeChunkTypes ==
    /\ op' = "analyze_chunk_types"
    /\ result' = Returned(analyze_chunk_types(args[1]))
    /\ UNCHANGED <<args, componentVars>>

InitChunks ==
    /\ args \in {<<chunks>> : chunks \in ChunksInputs}
    /\ op = "none"
    /\ result = NoResult
    /\ ComponentsIdle

NextChunks == CallAnalyzeChunkTypes

SpecChunks == InitChunks /\ [][NextChunks]_vars

(***************************************************************************)
(* Properties of analyze_chunk_types.                                      *)
(***************************************************************************)
ChunksAnalyzed == op = "analyze_chunk_types"

MentionsIndex(text) ==
    \E k \in {"index", "table of contents", "signature book"} : ContainsIgnoreCase(text, k)

MentionsSustainability(text) ==
    \E k \in {"sustainability", "environmental", "sostenibilidad"} : ContainsIgnoreCase(text, k)

\* A word of the text, between characters that are not letters or digits,
\* made of three or more capitals.
HasCapitalWord(text) ==
    \E i \in 1..Len(text), j \in 1..Len(text) :
        /\ j - i + 1 >= 3
        /\ \A k \in i..j : Ch(text, k) \in AsciiUpper
        /\ ~IsWordCharAt(text, i - 1)
        /\ ~IsWordCharAt(text, j + 1)

HasSizeOrUnit(text) ==
    \/ Contains(text, "cm")
    \/ Contains(text, "mm")
    \/ \E i \in 1..Len(text) :
        /\ Ch(text, i) \in {"x", "×"}
        /\ i > 1 /\ Ch(text, i - 1) \in Digits
        /\ i < Len(text) /\ Ch(text, i + 1) \in Digits

HasDesignerMarker(text) ==
    \E k \in {"designer", "by ", "estudi", "dsignio", "yonoh", "stacy garcia"} :
        ContainsIgnoreCase(text, k)

\* The bucket the claim gives a chunk.
ClaimedType(text) ==
    IF MentionsIndex(text) THEN "index"
    ELSE IF MentionsSustainability(text) THEN "sustainability"
    ELSE IF HasCapitalWord(text) /\ (HasSizeOrUnit(text) \/ HasDesignerMarker(text))
    THEN "product_like"
    ELSE "other"

NumberOfType(chunks, type) ==
    Cardinality({i \in 1..Len(chunks) : ClaimedType(chunks[i].content) = type})

\* The part of C28 that holds: the four counts sum to the number of chunks,
\* and index and sustainability chunks are counted as such, in that
\* precedence.
C28_CountsSum ==
    ChunksAnalyzed =>
        LET analysis == result.ret
            chunks == args[1]
        IN  /\ DOMAIN analysis = {"index", "sustainability", "product_like", "other"}
            /\ analysis["index"] + analysis["sustainability"]
                   + analysis["product_like"] + analysis["other"] = Len(chunks)
            /\ analysis["index"] = NumberOfType(chunks, "index")
            /\ analysis["sustainability"] = NumberOfType(chunks, "sustainability")

\* C28: analyze_chunk_types puts every chunk in exactly one of index,
\* sustainability, product_like and other, with that precedence, so the four
\* counts sum to the number of chunks; a chunk without index or
\* sustainability keyword that has a word of three or more capitals and a
\* dimension or designer marker is counted as product_like.
C28_ChunkTypes ==
    ChunksAnalyzed =>
        /\ C28_CountsSum
        /\ \A type \in {"index", "sustainability", "product_like", "other"} :
            result.ret[type] = NumberOfType(args[1], type)

(***************************************************************************)
(* The file-patching scripts fix_pdf_processing_file_url.py and            *)
(* fix_pdf_processing_results.py, both run on the same file_path.          *)
(***************************************************************************)
\* The parts a file is made of at most, and the times it is written at most.
MaxFileParts == 3

MaxWrites == 2

old_data ==
    "                    import uuid\n" \o
    "                    pdf_result_data = {\n" \o
    "                        'id': document_id,\n" \o
    "                        'user_id': str(uuid.uuid4()),  # Generate a system user ID\n" \o
    "                        'original_filename': f\"{document_id}.pdf\",\n" \o
    "                        'processing_status': 'completed',\n" \o
    "                        'total_pages': 1,\n" \o
    "                        'total_tiles_extracted': len(images),\n" \o
    "                        'extraction_options': {\n" \o
    "                            'extract_images': True,\n" \o
    "                            'enable_multimodal': True\n" \o
    "                        }\n" \o
    "                    }"

new_data ==
    "                    import uuid\n" \o
    "                    pdf_result_data = {\n" \o
    "                        'id': document_id,\n" \o
    "                        'user_id': str(uuid.uuid4()),  # Generate a system user ID\n" \o
    "                        'original_filename': f\"{document_id}.pdf\",\n" \o
    "                        'file_url': f\"https://bgbavxtjlbvgplozizxu.supabase.co/storage/v1/object/public/pdf-documents/{document_id}.pdf\",\n" \o
    "                        'processing_status': 'completed',\n" \o
    "                        'total_pages': 1,\n" \o
    "                        'total_tiles_extracted': len(images),\n" \o
    "                        'extraction_options': {\n" \o
    "                            'extract_images': True,\n" \o
    "                            'enable_multimodal': True\n" \o
    "                        }\n" \o
    "                    }"

\* The two emoji of the log messages are written [ok] and [!].
new_code ==
    "            # Ensure pdf_processing_results record exists (for foreign key constraint)\n" \o
    "            try:\n" \o
    "                pdf_result_check = self._client.table('pdf_processing_results').select('id').eq('id', document_id).execute()\n" \o
    "                if not pdf_result_check.data:\n" \o
    "                    # Create pdf_processing_results record\n" \o
    "                    pdf_result_data = {\n" \o
    "                        'id': document_id,\n" \o
    "                        'original_filename': f\"{document_id}.pdf\",\n" \o
    "                        'processing_status': 'completed',\n" \o
    "                        'processing_started_at': 'now()',\n" \o
    "                        'processing_completed_at': 'now()',\n" \o
    "                        'total_pages': 1,\n" \o
    "                        'total_tiles_extracted': len(images),\n" \o
    "                        'extraction_options': {\n" \o
    "                            'extract_images': True,\n" \o
    "                            'enable_multimodal': True\n" \o
    "                        }\n" \o
    "                    }\n" \o
    "                    pdf_result_response = self._client.table('pdf_processing_results').insert(pdf_result_data).execute()\n" \o
    "                    if pdf_result_response.data:\n" \o
    "                        logger.info(f\"[ok] Created pdf_processing_results record: {document_id}\")\n" \o
    "                    else:\n" \o
    "                        logger.warning(f\"[!] Failed to create pdf_processing_results record: {document_id}\")\n" \o
    "            except Exception as pdf_error:\n" \o
    "                logger.warning(f\"[!] pdf_processing_results creation failed: {pdf_error}\")\n" \o
    "\n"

\* open(file_path, 'r'): in text mode the line ends '\r\n' and '\r' are
\* read as '\n'.
RECURSIVE read(_)
read(s) ==
    IF Len(s) = 0 THEN ""
    ELSE IF Len(s) = 1 THEN (IF s = "\r" THEN "\n" ELSE s)
    ELSE LET h == Len(s) \div 2
             left == read(SubSeq(s, 1, h))
             right == read(SubSeq(s, h + 1, Len(s)))
         IN  IF Ch(s, h) = "\r" /\ Ch(s, h + 1) = "\n"
             THEN left \o SubSeq(right, 2, Len(right))
             ELSE left \o right

\* str.splitlines(keepends=True) on text whose line ends are all '\n': the
\* lines, each with its '\n'.
RECURSIVE KeepEnds(_)
KeepEnds(s) ==
    IF Len(s) = 0 THEN <<>>
    ELSE IF Len(s) = 1 THEN <<s>>
    ELSE LET h == Len(s) \div 2
             left == KeepEnds(SubSeq(s, 1, h))
             right == KeepEnds(SubSeq(s, h + 1, Len(s)))
         IN  IF Ch(s, h) = "\n"
             THEN left \o right
             ELSE SubSeq(left, 1, Len(left) - 1)
                      \o <<left[Len(left)] \o right[1]>> \o Tail(right)

\* f.readlines()
readlines(s) == KeepEnds(read(s))

\* f.writelines(lines), and f.write of their concatenation: on the server,
\* where os.linesep is '\n', the text is stored as it is.
RECURSIVE writelines(_)
writelines(lines) ==
    IF Len(lines) = 0 THEN ""
    ELSE IF Len(lines) = 1 THEN lines[1]
    ELSE LET h == Len(lines) \div 2
         IN  writelines(SubSeq(lines, 1, h)) \o writelines(SubSeq(lines, h + 1, Len(lines)))

\* str.replace(old, new): every occurrence of old, left to right, not
\* overlapping.
RECURSIVE ReplaceFrom(_, _, _, _)
ReplaceFrom(s, i, old, new) ==
    LET found == {j \in i..(Len(s) - Len(old) + 1) : OccursAt(s, j, old)}
    IN  IF found = {} THEN SubSeq(s, i, Len(s))
        ELSE LET j == CHOOSE k \in found : \A m \in found : k <= m
             IN  SubSeq(s, i, j - 1) \o new \o ReplaceFrom(s, j + Len(old), old, new)

replace(s, old, new) == ReplaceFrom(s, 1, old, new)

\* The index of the first line at or after index from that contains sub, 0
\* for None.
FirstLineWith(lines, from, sub) ==
    LET found == {i \in from..Len(lines) : Contains(lines[i], sub)}
    IN  IF found = {} THEN 0 ELSE CHOOSE i \in found : \A m \in found : i <= m

\* list.insert(at, item), the index counted from 1.
Insert(lines, at, item) ==
    SubSeq(lines, 1, at - 1) \o <<item>> \o SubSeq(lines, at, Len(lines))

DocCheckPattern == "doc_check = self._client.table('documents').select"

SaveChunksPattern == "# Save text chunks to document_chunks table"

\* fix_pdf_processing_file_url.py
RunFixFileUrl ==
    /\ writes < MaxWrites
    /\ op' = "fix_pdf_processing_file_url"
    /\ LET text == read(file)
       IN  IF Contains(text, old_data)
           THEN /\ file' = replace(text, old_data, new_data)
                /\ writes' = writes + 1
                /\ result' = Returned("Fixed pdf_processing_results file_url")
           ELSE /\ result' = Returned("Pattern not found")
                /\ UNCHANGED <<file, writes>>
    /\ UNCHANGED outsidePatch

\* fix_pdf_processing_results.py
RunFixResults ==
    /\ writes < MaxWrites
    /\ op' = "fix_pdf_processing_results"
    /\ LET lines == readlines(file)
           insert_index == FirstLineWith(lines, 1, DocCheckPattern)
       IN  IF insert_index = 0
           THEN /\ result' = Returned("Pattern not found")
                /\ UNCHANGED <<file, writes>>
           ELSE LET save_chunks_index == FirstLineWith(lines, insert_index, SaveChunksPattern)
                IN  IF save_chunks_index = 0
                    THEN /\ result' = Returned("Save chunks comment not found")
                         /\ UNCHANGED <<file, writes>>
                    ELSE /\ file' = writelines(Insert(lines, save_chunks_index, new_code))
                         /\ writes' = writes + 1
                         /\ result' = Returned("Added pdf_processing_results creation code")
    /\ UNCHANGED outsidePatch

\* The parts of the files the scripts are run on.
FileParts ==
    {old_data \o "\n",
     "            " \o DocCheckPattern \o "('id').eq('id', document_id).execute()\n",
     "            " \o SaveChunksPattern \o "\n",
     "import logging\r\n",
     SaveChunksPattern \o "; " \o DocCheckPattern,
     "logger = logging.getLogger(__name__)"}

RECURSIVE Joined(_)
Joined(parts) == IF parts = <<>> THEN "" ELSE parts[1] \o Joined(Tail(parts))

FileInputs == {Joined(parts) : parts \in UNION {[1..n -> FileParts] : n \in 0..MaxFileParts}}

InitPatch ==
    /\ file \in FileInputs
    /\ writes = 0
    /\ op = "none"
    /\ result = NoResult
    /\ OutsidePatchIdle

NextPatch == RunFixFileUrl \/ RunFixResults

SpecPatch == InitPatch /\ [][NextPatch]_vars

(***************************************************************************)
(* Properties of the file-patching scripts.                                *)
(***************************************************************************)
PatchScripts == {"fix_pdf_processing_file_url", "fix_pdf_processing_results"}

\* C29: each script is idempotent: run again right after itself, on its own
\* output, it leaves the file exactly as its first run left it.
C29_Idempotent ==
    [][(op \in PatchScripts /\ op' = op) => (file' = file)]_vars

\* The lines of a file as they are stored, each with its line end.
StoredLines(stored) == KeepEnds(stored)

\* The index of the line the block belongs before: the first line with the
\* save-chunks comment at or after the first doc_check line; 0 when either
\* is missing.
BlockPlace(lines) ==
    LET checks == {i \in 1..Len(lines) : Contains(lines[i], DocCheckPattern)}
        saves == {i \in 1..Len(lines) :
                     /\ Contains(lines[i], SaveChunksPattern)
                     /\ \E c \in checks : c <= i}
    IN  IF saves = {} THEN 0 ELSE CHOOSE i \in saves : \A j \in saves : i <= j

\* The file is the file before with the block put before line place.
BlockInserted(before, after, place) ==
    LET lines == StoredLines(before)
        patched == StoredLines(after)
        added == Len(StoredLines(new_code))
    IN  /\ Len(patched) = Len(lines) + added
        /\ \A i \in 1..(place - 1) : patched[i] = lines[i]
        /\ writelines(SubSeq(patched, place, place + added - 1)) = new_code
        /\ \A i \in place..Len(lines) : patched[i + added] = lines[i]

\* What a run that started from the file before may do to it.
FrameKept(before) ==
    /\ op' = "fix_pdf_processing_file_url" =>
        IF Contains(before, old_data)
        THEN writes' = writes + 1 /\ file' = replace(before, old_data, new_data)
        ELSE writes' = writes /\ file' = file
    /\ op' = "fix_pdf_processing_results" =>
        IF BlockPlace(StoredLines(before)) # 0
        THEN writes' = writes + 1 /\ BlockInserted(before, file', BlockPlace(StoredLines(before)))
        ELSE writes' = writes /\ file' = file

\* C30: the scripts write the file only when their pattern is found and
\* then change nothing else: fix_pdf_processing_file_url.py only replaces
\* the old pdf_result_data block; fix_pdf_processing_results.py puts its
\* block right before the first save-chunks line at or after the doc_check
\* line and keeps every line of the file as it was, in order.
C30_FrameEffect ==
    [][FrameKept(file)]_vars

====
